---------------------------- MODULE Spec2Model ----------------------------
(***************************************************************************)
(* Carwaan: ride matching (Ride.match_score), the candidate pools of       *)
(* RideViewSet (available_rides, search_rides, recommended_rides,          *)
(* colleagues_rides, friend_group_rides, social_connections_rides) and the *)
(* ride / passenger lifecycle (create, join, invite_connections,           *)
(* manage_passengers, leave_ride, start_ride, complete_ride, cancel_ride,  *)
(* partial_update).                                                        *)
(*                                                                         *)
(* Conventions of the model                                                *)
(*   - a Python str is a sequence of one-character strings, so that        *)
(*     lower(), split(), int(), float() and substring tests are computed;  *)
(*   - None and every other falsy value of an optional field ("" , [], {}) *)
(*     is the empty sequence << >>;                                        *)
(*   - a datetime is a number of minutes, a date is a number of days;      *)
(*   - a coordinate is a number of thousandths of a degree, a distance a   *)
(*     number of metres;                                                   *)
(*   - a rating and a score are numbers of hundredths of a point.          *)
(*                                                                         *)
(* Specifications                                                          *)
(*   SpecScore    match_score as a function of its arguments;              *)
(*   Spec         the lifecycle requests of every user, one at a time;     *)
(*   SpecPools    the six pool queries between lifecycle requests;         *)
(*   SpecConfirm  manage_passengers 'confirm' requests handled at the same *)
(*                time, statement by statement;                            *)
(*   SpecPrivate  the public pools over rides marked private in the admin; *)
(*   SpecRating   update_rating calls on one user and one ride;            *)
(*   SpecDistance calculate_distance as a function of its arguments;       *)
(*   SpecGroups   the social pools over rides labelled with a friend group *)
(*                in the admin;                                            *)
(*   SpecUpdate   PATCH /rides/{id}/ beside create, join and               *)
(*                manage_passengers;                                       *)
(*   SpecLifecycle the requests that read or write the status of a ride,   *)
(*                together with PATCH /rides/{id}/.                        *)
(***************************************************************************)
EXTENDS Integers, Sequences, FiniteSets, TLC

VARIABLES
    rides,        \* the Ride table: ride id -> row
    passengers,   \* the RidePassenger table: a set of rows (ride, passenger, status)
    users,        \* the User table: user id -> row
    now,          \* timezone.now(), in minutes
    response,     \* the response being returned; NoResponse between requests
    scoreArgs,    \* SpecScore, SpecDistance: the arguments of the call;
                  \* SpecRating: the ratings accepted so far
    scoreResult,  \* << >> before a call, <<result>> after it
    workers       \* SpecConfirm: the manage_passengers requests in flight

vars == <<rides, passengers, users, now, response, scoreArgs, scoreResult, workers>>

-----------------------------------------------------------------------------
(* Python values *)

None == << >>

Truthy(v) == v # << >>

Min(a, b) == IF a <= b THEN a ELSE b

Max(a, b) == IF a >= b THEN a ELSE b

ToSet(s) == {s[i] : i \in DOMAIN s}

Digits == <<"0", "1", "2", "3", "4", "5", "6", "7", "8", "9">>

IsDigit(c) == \E i \in DOMAIN Digits : Digits[i] = c

DigitVal(c) == (CHOOSE i \in DOMAIN Digits : Digits[i] = c) - 1

UpperCase == <<"A", "B", "C", "H", "Q">>

LowerCase == <<"a", "b", "c", "h", "q">>

\* str.lower(), one character
LowerChar(c) ==
    IF \E i \in DOMAIN UpperCase : UpperCase[i] = c
    THEN LowerCase[CHOOSE i \in DOMAIN UpperCase : UpperCase[i] = c]
    ELSE c

\* str.lower()
Lower(s) == [i \in DOMAIN s |-> LowerChar(s[i])]

\* needle in hay (Python's substring test; the empty string is in every string)
Contains(hay, needle) ==
    \E k \in 0..(Len(hay) - Len(needle)) :
        \A i \in 1..Len(needle) : hay[k + i] = needle[i]

\* the ORM's __icontains lookup
IContains(hay, needle) == Contains(Lower(hay), Lower(needle))

\* str.split(sep) for a one-character separator: always at least one part
RECURSIVE Split(_, _)
Split(s, sep) ==
    IF \A i \in DOMAIN s : s[i] # sep
    THEN <<s>>
    ELSE LET k == CHOOSE i \in DOMAIN s :
                      s[i] = sep /\ \A j \in 1..(i - 1) : s[j] # sep
         IN  <<SubSeq(s, 1, k - 1)>> \o Split(SubSeq(s, k + 1, Len(s)), sep)

RECURSIVE DigitsValue(_)
DigitsValue(s) ==
    IF s = << >> THEN 0
    ELSE 10 * DigitsValue(SubSeq(s, 1, Len(s) - 1)) + DigitVal(s[Len(s)])

\* int(s): << >> is ValueError, <<n>> the value. An optional sign, then digits.
ParseInt(s) ==
    LET signed == s # << >> /\ s[1] \in {"-", "+"}
        body   == IF signed THEN Tail(s) ELSE s
    IN  IF body = << >> \/ \E i \in DOMAIN body : ~IsDigit(body[i])
        THEN << >>
        ELSE IF signed /\ s[1] = "-" THEN <<-DigitsValue(body)>>
             ELSE <<DigitsValue(body)>>

\* float(s) of a coordinate parameter: << >> is ValueError, <<c>> the value in
\* thousandths of a degree. The decimal forms "D", "D.D", "D.DD" and "D.DDD",
\* signed or not; any other text of the model's alphabet is no number.
ParseFloat(s) ==
    LET signed == s # << >> /\ s[1] \in {"-", "+"}
        body   == IF signed THEN Tail(s) ELSE s
        parts  == Split(body, ".")
        whole  == parts[1]
        frac   == IF Len(parts) = 2 THEN parts[2] ELSE << >>
        okDig(p) == \A i \in DOMAIN p : IsDigit(p[i])
        mills  == IF Len(frac) = 0 THEN 0
                  ELSE IF Len(frac) = 1 THEN 100 * DigitsValue(frac)
                  ELSE IF Len(frac) = 2 THEN 10 * DigitsValue(frac)
                  ELSE DigitsValue(frac)
        val    == 1000 * DigitsValue(whole) + mills
    IN  IF Len(parts) > 2 \/ ~okDig(whole) \/ ~okDig(frac) \/ Len(frac) > 3
           \/ (whole = << >> /\ frac = << >>)
        THEN << >>
        ELSE IF signed /\ s[1] = "-" THEN <<-val>> ELSE <<val>>

-----------------------------------------------------------------------------
(* datetimes *)

MinutesPerDay == 24 * 60

DateOf(t) == t \div MinutesPerDay

HourOf(t) == (t % MinutesPerDay) \div 60

MinuteOf(t) == t % 60

-----------------------------------------------------------------------------
(* Ride.calculate_distance *)

EarthRadiusKm == 6371

\* metres of one degree of a great circle: R * 1000 * pi / 180, pi as 355/113
MetresPerDegree == (EarthRadiusKm * 355 * 100) \div (113 * 18)

\* the least n with n * n >= x
RECURSIVE SqrtUpIn(_, _, _)
SqrtUpIn(x, lo, hi) ==
    IF lo >= hi THEN hi
    ELSE LET mid == (lo + hi) \div 2
         IN  IF mid * mid >= x THEN SqrtUpIn(x, lo, mid)
             ELSE SqrtUpIn(x, mid + 1, hi)

SqrtUp(x) == SqrtUpIn(x, 0, 40000)

\* calculate_distance that takes the second point's longitude for dlon
calculate_distance_undifferenced(lat1, lon1, lat2, lon2) ==
    LET dlat == lat2 - lat1
        dlon == lon2
        a    == dlat * dlat + dlon * dlon
        c    == SqrtUp(a * 10000)
    IN  (MetresPerDegree * c + 99999) \div 100000

\* The haversine distance, in metres (rounded up), of two points given in
\* thousandths of a degree. The model's points lie within 0.1 degrees of the
\* equator and of each other, where 2 * R * atan2(sqrt(a), sqrt(1 - a)) is
\* R * sqrt(dlat^2 + dlon^2) to 3 parts in a million; the root is taken in
\* fixed point (hundredths of a thousandth of a degree).
calculate_distance(lat1, lon1, lat2, lon2) ==
    LET dlat == lat2 - lat1
        dlon == lon2 - lon1
        a    == dlat * dlat + dlon * dlon
        c    == SqrtUp(a * 10000)
    IN  (MetresPerDegree * c + 99999) \div 100000

-----------------------------------------------------------------------------
(* Ride.match_score *)

\* dict.get(key, default)
Get(d, key, default) == IF key \in DOMAIN d THEN d[key] ELSE default

\* one elif chain of the distance factor, d in metres
DistancePoints(d) ==
    IF d <= 1000 THEN 20
    ELSE IF d <= 3000 THEN 15
    ELSE IF d <= 5000 THEN 10
    ELSE IF d <= 10000 THEN 5
    ELSE 0

\* 1. distance matching: the guard is the truthiness of the four fields, so a
\* coordinate of 0.0 counts as missing just as None does
ProximityScore(self, user_lat, user_lng, user_dest_lat, user_dest_lng) ==
    IF /\ Truthy(self.pickup_latitude) /\ self.pickup_latitude[1] # 0
       /\ Truthy(self.pickup_longitude) /\ self.pickup_longitude[1] # 0
       /\ Truthy(self.dropoff_latitude) /\ self.dropoff_latitude[1] # 0
       /\ Truthy(self.dropoff_longitude) /\ self.dropoff_longitude[1] # 0
    THEN LET pickup_distance ==
                 calculate_distance(user_lat, user_lng,
                                    self.pickup_latitude[1], self.pickup_longitude[1])
             dropoff_distance ==
                 calculate_distance(user_dest_lat, user_dest_lng,
                                    self.dropoff_latitude[1], self.dropoff_longitude[1])
         IN  DistancePoints(pickup_distance) + DistancePoints(dropoff_distance)
    ELSE 0

\* the body of the try block for one time range: TRUE when the ride's minute of
\* the day lies in the range, FALSE when it does not or when the parse raises
\* ValueError (wrong number of parts, a part that is no integer)
TimeRangeMatches(time_range, departure_time) ==
    LET halves == Split(time_range, "-")
    IN  /\ Len(halves) = 2
        /\ LET s == Split(halves[1], ":")
               e == Split(halves[2], ":")
           IN  /\ Len(s) = 2
               /\ ParseInt(s[1]) # << >> /\ ParseInt(s[2]) # << >>
               /\ Len(e) = 2
               /\ ParseInt(e[1]) # << >> /\ ParseInt(e[2]) # << >>
               /\ LET ride_time_minutes ==
                          HourOf(departure_time) * 60 + MinuteOf(departure_time)
                      start_time_minutes == ParseInt(s[1])[1] * 60 + ParseInt(s[2])[1]
                      end_time_minutes == ParseInt(e[1])[1] * 60 + ParseInt(e[2])[1]
                  IN  /\ start_time_minutes <= ride_time_minutes
                      /\ ride_time_minutes <= end_time_minutes

\* the time factor without the break: 20 for every range that matches
TimeScore_each(self, user) ==
    IF Truthy(user.preferred_departure_times)
    THEN 20 * Cardinality({i \in DOMAIN user.preferred_departure_times :
             TimeRangeMatches(user.preferred_departure_times[i], self.departure_time)})
    ELSE 0

\* 2. time matching: 20 once, at the first range that matches
TimeScore(self, user) ==
    IF /\ Truthy(user.preferred_departure_times)
       /\ \E i \in DOMAIN user.preferred_departure_times :
              TimeRangeMatches(user.preferred_departure_times[i], self.departure_time)
    THEN 20
    ELSE 0

\* the rating factor without the doubling of the rating
RatingScore100_single(self) ==
    IF self.driver.average_rating > 0
    THEN Min(10 * 100, self.driver.average_rating)
    ELSE 0

\* 3. driver rating, in hundredths of a point
RatingScore100(self) ==
    IF self.driver.average_rating > 0
    THEN Min(10 * 100, self.driver.average_rating * 2)
    ELSE 0

SmokingPoints(user, cf) ==
    IF user.smoking_preference # "no_preference"
    THEN IF /\ user.smoking_preference = "no_smoking"
            /\ Get(cf, "smoking_allowed", FALSE) = FALSE
         THEN 5
         ELSE IF /\ user.smoking_preference = "smoking_allowed"
                 /\ Get(cf, "smoking_allowed", FALSE) = TRUE
              THEN 5
              ELSE 0
    ELSE 3

AcPoints(user, cf) ==
    IF user.ac_preference # "no_preference"
    THEN IF user.ac_preference = "ac_required" /\ Get(cf, "has_ac", FALSE) = TRUE
         THEN 5
         ELSE IF user.ac_preference = "no_ac" /\ Get(cf, "has_ac", FALSE) = FALSE
              THEN 5
              ELSE 0
    ELSE 3

\* the chat points when only a chat_level equal to the preference counts
ChatPoints_equal(user, cf) ==
    IF user.chat_preference # "no_preference"
    THEN IF Get(cf, "chat_level", "moderate") = user.chat_preference THEN 5 ELSE 0
    ELSE 3

ChatPoints(user, cf) ==
    IF user.chat_preference # "no_preference"
    THEN IF /\ user.chat_preference = "chatty"
            /\ Get(cf, "chat_level", "moderate") \in {"chatty", "moderate"}
         THEN 5
         ELSE IF /\ user.chat_preference = "quiet"
                 /\ Get(cf, "chat_level", "moderate") \in {"quiet", "moderate"}
              THEN 5
              ELSE 0
    ELSE 3

MusicPoints(user, cf) ==
    IF /\ Truthy(user.preferred_music)
       /\ "music_genres" \in DOMAIN cf
       /\ ToSet(user.preferred_music) \cap ToSet(Get(cf, "music_genres", << >>)) # {}
    THEN 5
    ELSE 0

\* the preference factor without the test of self.comfort_features
PreferenceScore_unguarded(self, user) ==
    LET cf == self.comfort_features
    IN  SmokingPoints(user, cf) + AcPoints(user, cf) + ChatPoints(user, cf)
        + MusicPoints(user, cf)

\* 4. preferences: preference_score before the min(20, .)
PreferenceScore(self, user) ==
    IF Truthy(self.comfort_features)
    THEN LET cf == self.comfort_features
         IN  SmokingPoints(user, cf) + AcPoints(user, cf) + ChatPoints(user, cf)
             + MusicPoints(user, cf)
    ELSE 0

\* the workplace bonus counted once for each label that names the workplace
WorkplaceBonus_each(self, user) ==
    IF self.is_workplace_ride /\ Truthy(user.workplace)
    THEN (IF Contains(Lower(self.pickup_location), Lower(user.workplace))
          THEN 5 ELSE 0)
         + (IF Contains(Lower(self.dropoff_location), Lower(user.workplace))
            THEN 5 ELSE 0)
    ELSE 0

\* 5a. bonus for workplace rides
WorkplaceBonus(self, user) ==
    IF /\ self.is_workplace_ride
       /\ Truthy(user.workplace)
       /\ \/ Contains(Lower(self.pickup_location), Lower(user.workplace))
          \/ Contains(Lower(self.dropoff_location), Lower(user.workplace))
    THEN 5
    ELSE 0

\* 5b. bonus for colleague rides
ColleagueBonus(self, user) ==
    IF /\ Truthy(user.workplace)
       /\ Truthy(self.driver.workplace)
       /\ Lower(user.workplace) = Lower(self.driver.workplace)
    THEN 5
    ELSE 0

\* 5c. bonus for recurring rides: one point per day in both sets
RecurringBonus(self, user) ==
    IF /\ self.recurring
       /\ Truthy(self.recurring_days)
       /\ Truthy(user.preferred_days)
    THEN Cardinality(ToSet(self.recurring_days) \cap ToSet(user.preferred_days))
    ELSE 0

\* score before the final cap, in hundredths of a point
RawScore100(self, user, user_lat, user_lng, user_dest_lat, user_dest_lng) ==
    100 * 50
    + 100 * ProximityScore(self, user_lat, user_lng, user_dest_lat, user_dest_lng)
    + 100 * TimeScore(self, user)
    + RatingScore100(self)
    + 100 * Min(20, PreferenceScore(self, user))
    + 100 * WorkplaceBonus(self, user)
    + 100 * ColleagueBonus(self, user)
    + 100 * RecurringBonus(self, user)

\* match_score without the final min(100, score)
match_score_uncapped(self, user, user_lat, user_lng, user_dest_lat, user_dest_lng) ==
    RawScore100(self, user, user_lat, user_lng, user_dest_lat, user_dest_lng)

\* Ride.match_score, in hundredths of a point
match_score(self, user, user_lat, user_lng, user_dest_lat, user_dest_lng) ==
    Min(100 * 100,
        RawScore100(self, user, user_lat, user_lng, user_dest_lat, user_dest_lng))

-----------------------------------------------------------------------------
(* texts of the model *)

AcmeHQ == <<"A", "c", "m", "e", " ", "H", "Q">>

AcmeUpper == <<"A", "C", "M", "E">>

AcmeLower == <<"a", "c", "m", "e">>

BayCo == <<"B", "a", "y">>

Mall == <<"m", "a", "l", "l">>

Depot == <<"d", "e", "p", "o", "t">>

-----------------------------------------------------------------------------
(* SpecScore: match_score as a function of its arguments *)

Coords(plat, plng, dlat, dlng) ==
    [pickup_latitude |-> plat, pickup_longitude |-> plng,
     dropoff_latitude |-> dlat, dropoff_longitude |-> dlng]

\* (the ride's four coordinate fields, the rider's pickup and destination):
\* a ride without coordinates; a ride with coordinates and a rider on its
\* points, 0.4 km and 2 km away, 4.4 km and 7.8 km away, more than 10 km away;
\* a ride whose pickup latitude is 0.0
ScoreGeo ==
    { <<Coords(None, None, None, None), <<10, 10, 30, 30>> >>,
      <<Coords(<<10>>, <<10>>, <<30>>, <<30>>), <<10, 10, 30, 30>> >>,
      <<Coords(<<10>>, <<10>>, <<30>>, <<30>>), <<10, 14, 30, 48>> >>,
      <<Coords(<<10>>, <<10>>, <<30>>, <<30>>), <<10, 50, 30, 100>> >>,
      <<Coords(<<10>>, <<10>>, <<30>>, <<30>>), <<100, 100, 100, 100>> >>,
      <<Coords(<<0>>, <<10>>, <<30>>, <<30>>), <<0, 10, 30, 30>> >> }

Day1 == 1 * MinutesPerDay

\* (departure_time, preferred_departure_times)
ScoreTimes ==
    { <<Day1 + 8 * 60 + 30, None>>,
      <<Day1 + 8 * 60 + 30,
        << <<"0", "8", ":", "0", "0", "-", "0", "8", ":", "3", "0">> >> >>,
      <<Day1 + 8 * 60 + 30,
        << <<"x", "x">>,
           <<"0", "8", ":", "3", "0", "-", "0", "9", ":", "0", "0">>,
           <<"0", "8", ":", "0", "0", "-", "0", "9", ":", "0", "0">> >> >>,
      <<Day1 + 12 * 60,
        << <<"0", "8", ":", "0", "0", "-", "0", "8", ":", "3", "0">>,
           <<"0", "9", ":", "0", "0", "-", "0", "8">> >> >> }

\* the driver's average_rating: multiples of 0.25, whose doubles are exact floats
ScoreRatings == {0, 400, 500}

ScoreComfort ==
    { None,
      [smoking_allowed |-> FALSE, has_ac |-> TRUE, chat_level |-> "moderate",
       music_genres |-> <<"rock", "jazz">>],
      [smoking_allowed |-> TRUE, chat_level |-> "chatty"] }

\* (smoking_preference, ac_preference, chat_preference, preferred_music)
ScorePreferences ==
    { <<"no_smoking", "ac_required", "chatty", <<"jazz">> >>,
      <<"smoking_allowed", "no_ac", "quiet", <<"folk">> >>,
      <<"no_preference", "no_preference", "no_preference", None>>,
      <<"no_smoking", "no_preference", "quiet", <<"jazz", "folk">> >>,
      <<"no_preference", "ac_required", "no_preference", None>>,
      <<"smoking_allowed", "ac_required", "chatty", None>> }

\* (is_workplace_ride, pickup_location, dropoff_location, driver's workplace,
\*  rider's workplace)
ScoreWorkplaces ==
    { <<FALSE, Mall, Depot, None, None>>,
      <<TRUE, AcmeHQ, Depot, AcmeUpper, AcmeLower>>,
      <<TRUE, AcmeHQ, AcmeHQ, BayCo, AcmeLower>>,
      <<FALSE, AcmeHQ, Depot, AcmeLower, AcmeLower>>,
      <<TRUE, AcmeHQ, Depot, AcmeLower, None>>,
      <<TRUE, Mall, Depot, BayCo, AcmeLower>> }

\* (recurring, recurring_days, rider's preferred_days): JSON values, "i0" the
\* number 0 and "s0" the string "0"
ScoreRecurrence ==
    { <<FALSE, None, None>>,
      <<TRUE, <<"i0", "i2", "i4">>, None>>,
      <<TRUE, <<"i0", "i2", "i4">>, <<"i0", "i1", "i2">> >>,
      <<TRUE, <<"i0", "i1", "i2", "i3", "i4", "i5", "i6">>,
              <<"i0", "i1", "i2", "i3", "i4", "i5", "i6">> >> }

ScoreArgs ==
    { [coords |-> g[1], rider |-> g[2], times |-> t, rating |-> r, comfort |-> cf,
       prefs |-> p, work |-> w, recur |-> d] :
        g \in ScoreGeo, t \in ScoreTimes, r \in ScoreRatings, cf \in ScoreComfort,
        p \in ScorePreferences, w \in ScoreWorkplaces, d \in ScoreRecurrence }

\* the Ride of a call
ArgRide(a) ==
    [pickup_latitude |-> a.coords.pickup_latitude,
     pickup_longitude |-> a.coords.pickup_longitude,
     dropoff_latitude |-> a.coords.dropoff_latitude,
     dropoff_longitude |-> a.coords.dropoff_longitude,
     departure_time |-> a.times[1],
     driver |-> [average_rating |-> a.rating, workplace |-> a.work[4]],
     comfort_features |-> a.comfort,
     is_workplace_ride |-> a.work[1],
     pickup_location |-> a.work[2],
     dropoff_location |-> a.work[3],
     recurring |-> a.recur[1],
     recurring_days |-> a.recur[2]]

\* the User of a call
ArgUser(a) ==
    [preferred_departure_times |-> a.times[2],
     smoking_preference |-> a.prefs[1],
     ac_preference |-> a.prefs[2],
     chat_preference |-> a.prefs[3],
     preferred_music |-> a.prefs[4],
     workplace |-> a.work[5],
     preferred_days |-> a.recur[3]]

ArgScore(a) ==
    match_score(ArgRide(a), ArgUser(a), a.rider[1], a.rider[2], a.rider[3], a.rider[4])

ArgRaw(a) ==
    RawScore100(ArgRide(a), ArgUser(a), a.rider[1], a.rider[2], a.rider[3], a.rider[4])

NoRides == << >>

NoUsers == << >>

NoResponse ==
    [op |-> "none", user |-> 0, ride |-> 0, status |-> 0, at |-> 0,
     params |-> << >>, candidates |-> << >>, rides |-> << >>, scored |-> FALSE]

InitScore ==
    /\ scoreArgs \in ScoreArgs
    /\ scoreResult = None
    /\ rides = NoRides
    /\ passengers = {}
    /\ users = NoUsers
    /\ now = 0
    /\ response = NoResponse
    /\ workers = << >>

CallMatchScore ==
    /\ scoreResult = None
    /\ scoreResult' = <<ArgScore(scoreArgs)>>
    /\ UNCHANGED <<rides, passengers, users, now, response, scoreArgs, workers>>

NextScore == CallMatchScore

SpecScore == InitScore /\ [][NextScore]_vars

\* C1: match_score returns a value between 50 and 100 points: no factor is
\* negative, and the final min caps a raw sum above 100 at 100.
C1_ScoreWithinBounds ==
    scoreResult # None =>
        /\ 50 * 100 <= scoreResult[1]
        /\ scoreResult[1] <= 100 * 100
        /\ LET self == ArgRide(scoreArgs)
               user == ArgUser(scoreArgs)
               xy   == scoreArgs.rider
           IN  /\ ProximityScore(self, xy[1], xy[2], xy[3], xy[4]) >= 0
               /\ TimeScore(self, user) >= 0
               /\ RatingScore100(self) >= 0
               /\ PreferenceScore(self, user) >= 0
               /\ WorkplaceBonus(self, user) >= 0
               /\ ColleagueBonus(self, user) >= 0
               /\ RecurringBonus(self, user) >= 0
               /\ ArgRaw(scoreArgs) > 100 * 100 => scoreResult[1] = 100 * 100

\* a call whose raw sum exceeds 100 points has returned
C1_Witness ==
    /\ scoreResult # None
    /\ ArgRaw(scoreArgs) > 100 * 100
    /\ scoreResult[1] = 100 * 100

-----------------------------------------------------------------------------
(* the tables *)

\* the rides of the lifecycle specification
MaxRides == 1

\* the seats a ride is created with
MaxSeats == 2

\* the times the clock advances
MaxTicks == 1

UserIds == {1, 2, 3}

\* The User rows. 1 is a rider without a car, 2 a colleague of 1 with a car and
\* a rating, 3 a driver without workplace, connections or friend groups.
UserRows ==
    [u \in UserIds |->
        [id |-> u,
         workplace |-> IF u = 3 THEN None ELSE AcmeLower,
         department |-> IF u = 3 THEN "" ELSE "sales",
         has_car |-> u # 1,
         connections |-> IF u = 2 THEN {3} ELSE {},
         friend_groups |-> IF u = 1 THEN [hikers |-> <<3>>] ELSE None,
         average_rating |-> IF u = 2 THEN 400 ELSE 0,
         total_ratings |-> IF u = 2 THEN 1 ELSE 0,
         preferred_days |-> IF u = 1 THEN <<"i0", "i1", "i2">> ELSE None,
         preferred_departure_times |->
             IF u = 1
             THEN << <<"0", "8", ":", "0", "0", "-", "0", "9", ":", "0", "0">> >>
             ELSE None,
         preferred_music |-> IF u = 1 THEN <<"jazz">> ELSE None,
         smoking_preference |-> "no_smoking",
         ac_preference |-> IF u = 1 THEN "ac_required" ELSE "no_preference",
         chat_preference |-> "no_preference"]]

StartOfClock == Day1 + 7 * 60

TickMinutes == 1 * 60

\* the Ride row with its driver as the User object that self.driver loads
RideObject(row) == [row EXCEPT !.driver = users[row.driver]]

RideIds == DOMAIN rides

PassengersOf(r) == {p \in passengers : p.ride = r}

\* RidePassenger.objects.filter(ride=ride, passenger=user).exists()
HasRecord(r, u) == \E p \in passengers : p.ride = r /\ p.passenger = u

\* is_full that holds only below zero available seats
is_full_negative(row) == row.available_seats < 0

\* Ride.is_full, on a loaded row
is_full(row) == row.available_seats <= 0

\* RidePassenger.objects.filter(ride=self, status="confirmed").count()
ConfirmedCount(records, r) ==
    Cardinality({p \in records : p.ride = r /\ p.status = "confirmed"})

\* update_available_seats counting the records of every status
update_available_seats_any(row, r, records) ==
    [row EXCEPT !.available_seats =
        Max(0, row.total_seats - Cardinality({p \in records : p.ride = r}))]

\* Ride.update_available_seats: the row that self.save() writes, given the
\* loaded row and the RidePassenger table it counts in
update_available_seats(row, r, records) ==
    [row EXCEPT !.available_seats =
        Max(0, row.total_seats - ConfirmedCount(records, r))]

-----------------------------------------------------------------------------
(* the lifecycle requests; each handler is one atomic step *)

Reply(op, u, r, code) ==
    [op |-> op, user |-> u, ride |-> r, status |-> code, at |-> now,
     params |-> << >>, candidates |-> << >>, rides |-> << >>, scored |-> FALSE]

\* the request bodies of create
FormA ==
    [pickup_location |-> AcmeHQ, dropoff_location |-> Depot,
     pickup_latitude |-> <<10>>, pickup_longitude |-> <<10>>,
     dropoff_latitude |-> <<30>>, dropoff_longitude |-> <<30>>,
     recurring |-> FALSE, recurring_days |-> None,
     is_workplace_ride |-> TRUE,
     comfort_features |->
         [smoking_allowed |-> FALSE, has_ac |-> TRUE, chat_level |-> "moderate",
          music_genres |-> <<"rock", "jazz">>]]

FormB ==
    [pickup_location |-> Mall, dropoff_location |-> Depot,
     pickup_latitude |-> None, pickup_longitude |-> None,
     dropoff_latitude |-> None, dropoff_longitude |-> None,
     recurring |-> TRUE, recurring_days |-> <<"i0", "i2", "i4">>,
     is_workplace_ride |-> FALSE,
     comfort_features |-> None]

\* RideCreateSerializer.validate and the field validators
CreateIsValid(data) ==
    LET cs == <<data.pickup_latitude, data.pickup_longitude,
                data.dropoff_latitude, data.dropoff_longitude>>
        given(c) == Truthy(c) /\ c[1] # 0
    IN  /\ data.departure_time >= now
        /\ data.total_seats >= 1
        /\ ~((\E i \in 1..4 : given(cs[i])) /\ ~(\A i \in 1..4 : given(cs[i])))
        /\ ~(data.recurring /\ ~Truthy(data.recurring_days))
        /\ data.pickup_location # data.dropoff_location

\* the row that Ride.objects.create stores
NewRide(u, data) ==
    [driver |-> u,
     departure_time |-> data.departure_time,
     pickup_location |-> data.pickup_location,
     dropoff_location |-> data.dropoff_location,
     total_seats |-> data.total_seats,
     available_seats |-> data.total_seats,
     status |-> "scheduled",
     is_private |-> FALSE,
     friend_group |-> "",
     pickup_latitude |-> data.pickup_latitude,
     pickup_longitude |-> data.pickup_longitude,
     dropoff_latitude |-> data.dropoff_latitude,
     dropoff_longitude |-> data.dropoff_longitude,
     recurring |-> data.recurring,
     recurring_days |-> data.recurring_days,
     is_workplace_ride |-> data.is_workplace_ride,
     comfort_features |-> data.comfort_features,
     average_rating |-> 0,
     total_ratings |-> 0]

\* POST /rides/ : RideCreateSerializer
create(u, data) ==
    /\ IF CreateIsValid(data) /\ users[u].has_car
       THEN /\ rides' = Append(rides, NewRide(u, data))
            /\ response' = Reply("create", u, Len(rides) + 1, 201)
       ELSE /\ UNCHANGED rides
            /\ response' = Reply("create", u, 0, 400)
    /\ UNCHANGED <<passengers, users, now, scoreArgs, scoreResult, workers>>

\* join whose serializer does not test ride.is_full()
join_when_full(u, r) ==
    /\ r \in RideIds
    /\ LET ride == rides[r]
       IN  IF ride.status # "scheduled"
           THEN /\ response' = Reply("join", u, r, 400)
                /\ UNCHANGED passengers
           ELSE IF HasRecord(r, u) \/ ride.driver = u
           THEN /\ response' = Reply("join", u, r, 400)
                /\ UNCHANGED passengers
           ELSE /\ passengers' = passengers \cup
                       {[ride |-> r, passenger |-> u, status |-> "pending"]}
                /\ response' = Reply("join", u, r, 201)
    /\ UNCHANGED <<rides, users, now, scoreArgs, scoreResult, workers>>

\* POST /rides/{r}/join/ : RideViewSet.join with JoinRideSerializer
join(u, r) ==
    /\ r \in RideIds
    /\ LET ride == rides[r]
       IN  IF ride.status # "scheduled"
           THEN /\ response' = Reply("join", u, r, 400)
                /\ UNCHANGED passengers
           ELSE IF is_full(ride) \/ HasRecord(r, u) \/ ride.driver = u
           THEN /\ response' = Reply("join", u, r, 400)
                /\ UNCHANGED passengers
           ELSE /\ passengers' = passengers \cup
                       {[ride |-> r, passenger |-> u, status |-> "pending"]}
                /\ response' = Reply("join", u, r, 201)
    /\ UNCHANGED <<rides, users, now, scoreArgs, scoreResult, workers>>

\* cancel_ride that does not look at the status of the ride
cancel_ride_any_status(u, r) ==
    /\ r \in RideIds
    /\ IF rides[r].driver # u
       THEN /\ response' = Reply("cancel_ride", u, r, 403)
            /\ UNCHANGED rides
       ELSE /\ rides' = [rides EXCEPT ![r].status = "cancelled"]
            /\ response' = Reply("cancel_ride", u, r, 200)
    /\ UNCHANGED <<passengers, users, now, scoreArgs, scoreResult, workers>>

\* POST /rides/{r}/cancel_ride/ : IsRideDriver, then RideViewSet.cancel_ride
cancel_ride(u, r) ==
    /\ r \in RideIds
    /\ IF rides[r].driver # u
       THEN /\ response' = Reply("cancel_ride", u, r, 403)
            /\ UNCHANGED rides
       ELSE IF rides[r].status \notin {"scheduled", "in_progress"}
       THEN /\ response' = Reply("cancel_ride", u, r, 400)
            /\ UNCHANGED rides
       ELSE /\ rides' = [rides EXCEPT ![r].status = "cancelled"]
            /\ response' = Reply("cancel_ride", u, r, 200)
    /\ UNCHANGED <<passengers, users, now, scoreArgs, scoreResult, workers>>

\* POST /rides/{r}/leave_ride/
leave_ride(u, r) ==
    /\ r \in RideIds
    /\ IF ~HasRecord(r, u)
       THEN /\ response' = Reply("leave_ride", u, r, 404)
            /\ UNCHANGED <<rides, passengers>>
       ELSE IF rides[r].status # "scheduled"
       THEN /\ response' = Reply("leave_ride", u, r, 400)
            /\ UNCHANGED <<rides, passengers>>
       ELSE LET left == {p \in passengers : ~(p.ride = r /\ p.passenger = u)}
            IN  /\ passengers' = left
                /\ rides' = [rides EXCEPT
                       ![r] = update_available_seats(rides[r], r, left)]
                /\ response' = Reply("leave_ride", u, r, 204)
    /\ UNCHANGED <<users, now, scoreArgs, scoreResult, workers>>

\* POST /rides/{r}/start_ride/
start_ride(u, r) ==
    /\ r \in RideIds
    /\ IF rides[r].driver # u
       THEN /\ response' = Reply("start_ride", u, r, 403)
            /\ UNCHANGED rides
       ELSE IF rides[r].status # "scheduled"
       THEN /\ response' = Reply("start_ride", u, r, 400)
            /\ UNCHANGED rides
       ELSE /\ rides' = [rides EXCEPT ![r].status = "in_progress"]
            /\ response' = Reply("start_ride", u, r, 200)
    /\ UNCHANGED <<passengers, users, now, scoreArgs, scoreResult, workers>>

\* POST /rides/{r}/complete_ride/
complete_ride(u, r) ==
    /\ r \in RideIds
    /\ IF rides[r].driver # u
       THEN /\ response' = Reply("complete_ride", u, r, 403)
            /\ UNCHANGED rides
       ELSE IF rides[r].status # "in_progress"
       THEN /\ response' = Reply("complete_ride", u, r, 400)
            /\ UNCHANGED rides
       ELSE /\ rides' = [rides EXCEPT ![r].status = "completed"]
            /\ response' = Reply("complete_ride", u, r, 200)
    /\ UNCHANGED <<passengers, users, now, scoreArgs, scoreResult, workers>>

\* POST /rides/{r}/manage_passengers/ : IsRideDriver, then the handler; the
\* passenger request is named by its passenger (one record per ride and user)
manage_passengers(u, r, passenger_id, action) ==
    /\ r \in RideIds
    /\ LET ride == rides[r]
           pending == [ride |-> r, passenger |-> passenger_id, status |-> "pending"]
       IN  IF ride.driver # u
           THEN /\ response' = Reply("manage_passengers", u, r, 403)
                /\ UNCHANGED <<rides, passengers>>
           ELSE IF action \notin {"confirm", "reject"}
           THEN /\ response' = Reply("manage_passengers", u, r, 400)
                /\ UNCHANGED <<rides, passengers>>
           ELSE IF pending \notin passengers
           THEN /\ response' = Reply("manage_passengers", u, r, 404)
                /\ UNCHANGED <<rides, passengers>>
           ELSE IF action = "confirm"
           THEN IF is_full(ride)
                THEN /\ response' = Reply("manage_passengers", u, r, 400)
                     /\ UNCHANGED <<rides, passengers>>
                ELSE LET after == (passengers \ {pending}) \cup
                                      {[pending EXCEPT !.status = "confirmed"]}
                     IN  /\ passengers' = after
                         /\ rides' = [rides EXCEPT
                                ![r] = update_available_seats(ride, r, after)]
                         /\ response' = Reply("manage_passengers", u, r, 200)
           ELSE /\ passengers' = (passengers \ {pending}) \cup
                                     {[pending EXCEPT !.status = "rejected"]}
                /\ UNCHANGED rides
                /\ response' = Reply("manage_passengers", u, r, 200)
    /\ UNCHANGED <<users, now, scoreArgs, scoreResult, workers>>

\* the users an invite_connections request reaches: the user_ids that exist,
\* the members of the driver's friend group, the colleagues of the department
Invitees(u, r, user_ids, friend_group, department) ==
    LET me == users[u]
        byId == {i \in ToSet(user_ids) : i \in UserIds}
        byGroup ==
            IF friend_group # "" /\ Truthy(me.friend_groups)
            THEN {i \in ToSet(Get(me.friend_groups, friend_group, << >>)) :
                      i \in UserIds}
            ELSE {}
        byDepartment ==
            IF department # "" /\ rides[r].is_workplace_ride
            THEN {i \in UserIds : /\ users[i].workplace = me.workplace
                                  /\ users[i].department = department
                                  /\ i # u}
            ELSE {}
    IN  byId \cup byGroup \cup byDepartment

\* POST /rides/{r}/invite_connections/
invite_connections(u, r, user_ids, friend_group, department) ==
    /\ r \in RideIds
    /\ IF rides[r].driver # u
       THEN /\ response' = Reply("invite_connections", u, r, 403)
            /\ UNCHANGED passengers
       ELSE /\ passengers' = passengers \cup
                   {[ride |-> r, passenger |-> i, status |-> "pending"] :
                       i \in {j \in Invitees(u, r, user_ids, friend_group, department) :
                                 ~HasRecord(r, j)}}
            /\ response' = Reply("invite_connections", u, r, 200)
    /\ UNCHANGED <<rides, users, now, scoreArgs, scoreResult, workers>>

\* PATCH /ride-passengers/{id}/ : RidePassengerViewSet with
\* RidePassengerSerializer, whose status field is writable; the record is named
\* by its ride and passenger and is visible to the ride's driver and to the
\* passenger
ride_passenger_partial_update(u, r, passenger_id, new_status) ==
    /\ r \in RideIds
    /\ IF ~(HasRecord(r, passenger_id) /\ (rides[r].driver = u \/ passenger_id = u))
       THEN /\ response' = Reply("ride_passenger_partial_update", u, r, 404)
            /\ UNCHANGED passengers
       ELSE IF new_status \notin {"pending", "confirmed", "rejected", "cancelled"}
       THEN /\ response' = Reply("ride_passenger_partial_update", u, r, 400)
            /\ UNCHANGED passengers
       ELSE /\ passengers' =
                   {p \in passengers : ~(p.ride = r /\ p.passenger = passenger_id)}
                       \cup {[ride |-> r, passenger |-> passenger_id,
                              status |-> new_status]}
            /\ response' = Reply("ride_passenger_partial_update", u, r, 200)
    /\ UNCHANGED <<rides, users, now, scoreArgs, scoreResult, workers>>

\* timezone.now() advances between requests
Tick ==
    /\ now < StartOfClock + MaxTicks * TickMinutes
    /\ now' = now + TickMinutes
    /\ UNCHANGED <<rides, passengers, users, response, scoreArgs, scoreResult,
                   workers>>

\* the server takes one request at a time: a handler runs when the response
\* of the request before it has been returned
Idle == response = NoResponse

\* return Response(...): the client has the response
Return ==
    /\ response # NoResponse
    /\ response' = NoResponse
    /\ UNCHANGED <<rides, passengers, users, now, scoreArgs, scoreResult, workers>>

-----------------------------------------------------------------------------
(* the candidate pools *)

\* The rows of an unordered queryset come in an order the database chooses:
\* a query is given that order as a permutation of the table's ids.
DbOrders ==
    {o \in [1..Len(rides) -> RideIds] : \A i, j \in 1..Len(rides) : o[i] = o[j] => i = j}

\* the rows of a queryset, in the database's order
InOrder(order, ids) == SelectSeq(order, LAMBDA r : r \in ids)

\* the base filter without available_seats__gt=0
Open_anySeats(r) == rides[r].status = "scheduled"

\* the base filter without status='scheduled'
Open_anyStatus(r) == rides[r].available_seats > 0

\* status='scheduled', available_seats__gt=0
Open(r) == rides[r].status = "scheduled" /\ rides[r].available_seats > 0

\* ... and departure_time__gt=timezone.now()
OpenAndFuture(r) == Open(r) /\ rides[r].departure_time > now

\* the rides of the user's confirmed records only
user_joined_rides_confirmed(u) ==
    {p.ride : p \in {q \in passengers : q.passenger = u /\ q.status = "confirmed"}}

\* RidePassenger.objects.filter(passenger=user).values_list('ride')
user_joined_rides(u) == {p.ride : p \in {q \in passengers : q.passenger = u}}

\* .exclude(driver=user) and .exclude(id__in=user_joined_rides)
NotMine(u, r) == rides[r].driver # u /\ r \notin user_joined_rides(u)

\* RideSerializer(ride).data, with the match score when there is one
RideData(r, score) ==
    [id |-> r,
     driver |-> rides[r].driver,
     status |-> rides[r].status,
     total_seats |-> rides[r].total_seats,
     available_seats |-> rides[r].available_seats,
     departure_time |-> rides[r].departure_time,
     passengers |-> {[passenger |-> p.passenger, status |-> p.status] :
                         p \in PassengersOf(r)},
     match_score |-> score]

Plain(ids) == [i \in DOMAIN ids |-> RideData(ids[i], None)]

QueryReply(op, u, code, params, candidates, list, scored) ==
    [op |-> op, user |-> u, ride |-> 0, status |-> code, at |-> now,
     params |-> params, candidates |-> candidates, rides |-> list, scored |-> scored]

AvailableIds(u) == {r \in RideIds : OpenAndFuture(r) /\ NotMine(u, r)}

\* available_rides that also closes the rides whose departure has passed
available_rides_closing(u, order) ==
    /\ response' = QueryReply("available_rides", u, 200, << >>,
                              InOrder(order, AvailableIds(u)),
                              Plain(InOrder(order, AvailableIds(u))), FALSE)
    /\ rides' = [r \in RideIds |->
                    IF rides[r].status = "scheduled" /\ rides[r].departure_time <= now
                    THEN [rides[r] EXCEPT !.status = "completed"]
                    ELSE rides[r]]
    /\ UNCHANGED <<passengers, users, now, scoreArgs, scoreResult, workers>>

\* GET /rides/available_rides/
available_rides(u, order) ==
    /\ response' = QueryReply("available_rides", u, 200, << >>,
                              InOrder(order, AvailableIds(u)),
                              Plain(InOrder(order, AvailableIds(u))), FALSE)
    /\ UNCHANGED <<rides, passengers, users, now, scoreArgs, scoreResult, workers>>

\* a descending sort that is not stable: each pair goes before the pairs of
\* its score
RECURSIVE SortByScore_unstable(_)
SortByScore_unstable(pairs) ==
    IF pairs = << >> THEN << >>
    ELSE LET front == SortByScore_unstable(SubSeq(pairs, 1, Len(pairs) - 1))
             x == pairs[Len(pairs)]
             k == Cardinality({i \in DOMAIN front : front[i][2] > x[2]})
         IN  SubSeq(front, 1, k) \o <<x>> \o SubSeq(front, k + 1, Len(front))

\* list.sort(key=lambda x: x[1], reverse=True): each pair goes behind the pairs
\* already placed whose score is not lower (the sort is stable)
RECURSIVE SortByScore(_)
SortByScore(pairs) ==
    IF pairs = << >> THEN << >>
    ELSE LET front == SortByScore(SubSeq(pairs, 1, Len(pairs) - 1))
             x == pairs[Len(pairs)]
             k == Cardinality({i \in DOMAIN front : front[i][2] >= x[2]})
         IN  SubSeq(front, 1, k) \o <<x>> \o SubSeq(front, k + 1, Len(front))

\* the scored branch of search_rides and recommended_rides
ScoredList(u, ids, lat, lng, dest_lat, dest_lng) ==
    LET scored_rides ==
            [i \in DOMAIN ids |->
                <<ids[i], match_score(RideObject(rides[ids[i]]), users[u],
                                      lat, lng, dest_lat, dest_lng)>>]
        sorted == SortByScore(scored_rides)
    IN  [i \in DOMAIN sorted |-> RideData(sorted[i][1], <<sorted[i][2]>>)]

\* The model's calendar: "YYYY-MM-DD" is a date when its three parts are
\* integers, the month is 1..12 and the day 1..28; day 1 of the timeline is
\* 2026-01-01. << >> is a text that is no date.
ParseDate(s) ==
    LET parts == Split(s, "-")
    IN  IF Len(parts) # 3 THEN << >>
        ELSE LET y == ParseInt(parts[1])
                 m == ParseInt(parts[2])
                 d == ParseInt(parts[3])
             IN  IF y = << >> \/ m = << >> \/ d = << >> THEN << >>
                 ELSE IF y[1] < 1 \/ m[1] < 1 \/ m[1] > 12 \/ d[1] < 1 \/ d[1] > 28
                 THEN << >>
                 ELSE <<((y[1] - 2026) * 12 + (m[1] - 1)) * 31 + d[1]>>

\* the try block of the smart time filter: << >> when it raises ValueError,
\* else <<time_window_start, time_window_end>>
TimeWindow(date, departure_time, time_flexibility) ==
    LET hm == Split(departure_time, ":")
    IN  IF Len(hm) # 2 \/ ParseInt(hm[1]) = << >> \/ ParseInt(hm[2]) = << >>
        THEN << >>
        ELSE LET hour == ParseInt(hm[1])[1]
                 minute == ParseInt(hm[2])[1]
             IN  IF hour < 0 \/ hour > 23 \/ minute < 0 \/ minute > 59 THEN << >>
                 ELSE LET base_time ==
                              ParseDate(date)[1] * MinutesPerDay + hour * 60 + minute
                      IN  <<base_time - time_flexibility, base_time + time_flexibility>>

\* int(time_flexibility) with 60 for an absent or unparsable parameter
Flexibility_sixty(text) ==
    IF text = None \/ ParseInt(text) = << >> THEN 60 ELSE ParseInt(text)[1]

\* int(time_flexibility), 30 when the parameter is absent or no integer
Flexibility(text) ==
    IF text = None \/ ParseInt(text) = << >> THEN 30 ELSE ParseInt(text)[1]

\* the filters of search_rides after the date has been accepted
SearchIds(u, q) ==
    LET flex == Flexibility(q.time_flexibility)
        window == IF Truthy(q.date) /\ Truthy(q.departure_time)
                  THEN TimeWindow(q.date, q.departure_time, flex)
                  ELSE << >>
    IN  {r \in RideIds :
            /\ Open(r)
            /\ Truthy(q.date) => DateOf(rides[r].departure_time) = ParseDate(q.date)[1]
            /\ window # << >> =>
                   /\ rides[r].departure_time >= window[1]
                   /\ rides[r].departure_time <= window[2]
            /\ Truthy(q.pickup) => IContains(rides[r].pickup_location, q.pickup)
            /\ Truthy(q.dropoff) => IContains(rides[r].dropoff_location, q.dropoff)
            /\ Truthy(q.workplace) =>
                   \/ IContains(rides[r].pickup_location, q.workplace)
                   \/ IContains(rides[r].dropoff_location, q.workplace)
                   \/ IContains(users[rides[r].driver].workplace, q.workplace)
            /\ NotMine(u, r)}

\* lat and lng and dest_lat and dest_lng, and the four float() calls succeed
CoordinatesGiven(q) ==
    /\ Truthy(q.lat) /\ Truthy(q.lng) /\ Truthy(q.dest_lat) /\ Truthy(q.dest_lng)
    /\ ParseFloat(q.lat) # << >> /\ ParseFloat(q.lng) # << >>
    /\ ParseFloat(q.dest_lat) # << >> /\ ParseFloat(q.dest_lng) # << >>

\* GET /rides/search_rides/ : the filter on departure_time__date raises
\* ValidationError for a text that is no date, which no handler catches
search_rides(u, q, order) ==
    /\ IF Truthy(q.date) /\ ParseDate(q.date) = << >>
       THEN response' = QueryReply("search_rides", u, 500, q, << >>, << >>, FALSE)
       ELSE LET ids == InOrder(order, SearchIds(u, q))
            IN  IF CoordinatesGiven(q)
                THEN response' = QueryReply("search_rides", u, 200, q, ids,
                         ScoredList(u, ids, ParseFloat(q.lat)[1], ParseFloat(q.lng)[1],
                                    ParseFloat(q.dest_lat)[1], ParseFloat(q.dest_lng)[1]),
                         TRUE)
                ELSE response' = QueryReply("search_rides", u, 200, q, ids,
                                            Plain(ids), FALSE)
    /\ UNCHANGED <<rides, passengers, users, now, scoreArgs, scoreResult, workers>>

\* User.objects.filter(workplace=user.workplace).exclude(id=user.id)
Colleagues(u) ==
    {i \in UserIds : users[i].workplace = users[u].workplace /\ i # u}

ColleagueIds(u) ==
    {r \in RideIds : /\ rides[r].driver \in Colleagues(u)
                     /\ OpenAndFuture(r)
                     /\ r \notin user_joined_rides(u)}

\* GET /rides/colleagues_rides/
colleagues_rides(u, order) ==
    /\ IF ~Truthy(users[u].workplace)
       THEN response' = QueryReply("colleagues_rides", u, 400, << >>, << >>, << >>, FALSE)
       ELSE response' = QueryReply("colleagues_rides", u, 200, << >>,
                                   InOrder(order, ColleagueIds(u)),
                                   Plain(InOrder(order, ColleagueIds(u))), FALSE)
    /\ UNCHANGED <<rides, passengers, users, now, scoreArgs, scoreResult, workers>>

\* the unscored end of recommended_rides: colleagues' rides, then rides to or
\* from the workplace, then the others
WorkplaceOrder(u, ids) ==
    LET wp == users[u].workplace
        colleague(r) == users[rides[r].driver].workplace = wp
        atWork(r) == \/ IContains(rides[r].pickup_location, wp)
                     \/ IContains(rides[r].dropoff_location, wp)
    IN  SelectSeq(ids, colleague)
        \o SelectSeq(ids, LAMBDA r : atWork(r) /\ ~colleague(r))
        \o SelectSeq(ids, LAMBDA r : ~atWork(r) /\ ~colleague(r))

\* GET /rides/recommended_rides/
recommended_rides(u, q, order) ==
    /\ LET ids == InOrder(order, AvailableIds(u))
       IN  IF CoordinatesGiven(q)
           THEN response' = QueryReply("recommended_rides", u, 200, q, ids,
                    ScoredList(u, ids, ParseFloat(q.lat)[1], ParseFloat(q.lng)[1],
                               ParseFloat(q.dest_lat)[1], ParseFloat(q.dest_lng)[1]),
                    TRUE)
           ELSE IF Truthy(users[u].workplace)
           THEN response' = QueryReply("recommended_rides", u, 200, q, ids,
                                       Plain(WorkplaceOrder(u, ids)), FALSE)
           ELSE response' = QueryReply("recommended_rides", u, 200, q, ids,
                                       Plain(ids), FALSE)
    /\ UNCHANGED <<rides, passengers, users, now, scoreArgs, scoreResult, workers>>

FriendGroupIds(u, group) ==
    LET members == IF Truthy(users[u].friend_groups)
                   THEN ToSet(Get(users[u].friend_groups, group, << >>))
                   ELSE {}
    IN  {r \in RideIds :
            /\ OpenAndFuture(r)
            /\ rides[r].friend_group = group \/ rides[r].driver \in members
            /\ NotMine(u, r)}

\* GET /rides/friend_group_rides/?group=
friend_group_rides(u, group, order) ==
    /\ IF group = ""
       THEN response' = QueryReply("friend_group_rides", u, 400, << >>, << >>, << >>,
                                   FALSE)
       ELSE response' = QueryReply("friend_group_rides", u, 200, << >>,
                                   InOrder(order, FriendGroupIds(u, group)),
                                   Plain(InOrder(order, FriendGroupIds(u, group))), FALSE)
    /\ UNCHANGED <<rides, passengers, users, now, scoreArgs, scoreResult, workers>>

SocialIds(u) ==
    LET all_connections ==
            IF Truthy(users[u].workplace)
            THEN users[u].connections \cup Colleagues(u)
            ELSE users[u].connections
        user_groups == IF Truthy(users[u].friend_groups)
                       THEN DOMAIN users[u].friend_groups
                       ELSE {}
    IN  {r \in RideIds :
            /\ OpenAndFuture(r)
            /\ rides[r].driver \in all_connections \/ rides[r].friend_group \in user_groups
            /\ NotMine(u, r)}

\* order_by('departure_time'): rows of equal time stay in the database's order
RECURSIVE SortByDeparture(_)
SortByDeparture(ids) ==
    IF ids = << >> THEN << >>
    ELSE LET front == SortByDeparture(SubSeq(ids, 1, Len(ids) - 1))
             x == ids[Len(ids)]
             k == Cardinality({i \in DOMAIN front :
                      rides[front[i]].departure_time <= rides[x].departure_time})
         IN  SubSeq(front, 1, k) \o <<x>> \o SubSeq(front, k + 1, Len(front))

\* GET /rides/social_connections_rides/
social_connections_rides(u, order) ==
    /\ response' = QueryReply("social_connections_rides", u, 200, << >>,
                              InOrder(order, SocialIds(u)),
                              Plain(SortByDeparture(InOrder(order, SocialIds(u)))), FALSE)
    /\ UNCHANGED <<rides, passengers, users, now, scoreArgs, scoreResult, workers>>

-----------------------------------------------------------------------------
(* Spec: the lifecycle requests of every user on the rides, one at a time *)

Init ==
    /\ rides = NoRides
    /\ passengers = {}
    /\ users = UserRows
    /\ now = StartOfClock
    /\ response = NoResponse
    /\ scoreArgs = << >>
    /\ scoreResult = None
    /\ workers = << >>

\* a departure between the start of the clock and its first advance
Departure == StartOfClock + 30

\* ListField(child=CharField()).to_internal_value: every number of the list
\* becomes its decimal string, a string stays as it is; None stays None
ListOfCharField(data) ==
    LET numbers == <<"i0", "i1", "i2", "i3", "i4", "i5", "i6">>
        strings == <<"s0", "s1", "s2", "s3", "s4", "s5", "s6">>
        CharField(v) == IF \E k \in DOMAIN numbers : numbers[k] = v
                        THEN strings[CHOOSE k \in DOMAIN numbers : numbers[k] = v]
                        ELSE v
    IN  [i \in DOMAIN data |-> CharField(data[i])]

\* validated_data of RideCreateSerializer for a request body
CreateData(form, seats, departure) ==
    [pickup_location |-> form.pickup_location,
     dropoff_location |-> form.dropoff_location,
     pickup_latitude |-> form.pickup_latitude,
     pickup_longitude |-> form.pickup_longitude,
     dropoff_latitude |-> form.dropoff_latitude,
     dropoff_longitude |-> form.dropoff_longitude,
     recurring |-> form.recurring,
     recurring_days |-> ListOfCharField(form.recurring_days),
     is_workplace_ride |-> form.is_workplace_ride,
     comfort_features |-> form.comfort_features,
     total_seats |-> seats,
     departure_time |-> departure]

Create ==
    \E u \in UserIds, form \in {FormA, FormB}, seats \in 0..MaxSeats :
        /\ Idle
        /\ Len(rides) < MaxRides
        /\ create(u, CreateData(form, seats, Departure))

Join == \E u \in UserIds, r \in 1..MaxRides : Idle /\ join(u, r)

Invite ==
    \E u \in UserIds, r \in 1..MaxRides, user_ids \in {<< >>, <<1>>, <<2, 3>>},
       friend_group \in {"", "hikers"}, department \in {"", "sales"} :
        Idle /\ invite_connections(u, r, user_ids, friend_group, department)

Manage ==
    \E u \in UserIds, r \in 1..MaxRides, passenger_id \in UserIds,
       action \in {"confirm", "reject", "remove"} :
        Idle /\ manage_passengers(u, r, passenger_id, action)

Leave == \E u \in UserIds, r \in 1..MaxRides : Idle /\ leave_ride(u, r)

Start == \E u \in UserIds, r \in 1..MaxRides : Idle /\ start_ride(u, r)

Complete == \E u \in UserIds, r \in 1..MaxRides : Idle /\ complete_ride(u, r)

Cancel == \E u \in UserIds, r \in 1..MaxRides : Idle /\ cancel_ride(u, r)

Clock == Idle /\ Tick

Next ==
    \/ Create
    \/ Join
    \/ Invite
    \/ Manage
    \/ Leave
    \/ Start
    \/ Complete
    \/ Cancel
    \/ Clock
    \/ Return

Spec == Init /\ [][Next]_vars

\* C6: after any sequence of create, join, invite_connections,
\* manage_passengers and leave_ride requests, each one atomic, every ride has
\* available_seats = max(0, total_seats - its confirmed passengers), and
\* 0 <= available_seats <= total_seats.
C6_SeatInvariant ==
    \A r \in RideIds :
        LET confirmed == {p \in passengers : p.ride = r /\ p.status = "confirmed"}
            left      == rides[r].total_seats - Cardinality(confirmed)
        IN  /\ rides[r].available_seats = IF left > 0 THEN left ELSE 0
            /\ 0 <= rides[r].available_seats
            /\ rides[r].available_seats <= rides[r].total_seats

\* a confirmed passenger has left a ride of two seats that still has a
\* confirmed passenger and a request
C6_Witness ==
    /\ response.op = "leave_ride"
    /\ response.status = 204
    /\ \E r \in RideIds :
           /\ r = response.ride
           /\ rides[r].total_seats = 2
           /\ rides[r].available_seats = 1
           /\ \E p \in passengers : p.ride = r /\ p.status = "confirmed"
           /\ \E p \in passengers : p.ride = r /\ p.status # "confirmed"

-----------------------------------------------------------------------------
(* SpecPools: the candidate pools queried while rides are offered, joined,
   managed, left, started, completed and cancelled *)

\* the rides of the pools specification
MaxPoolRides == 2

\* the seats of a ride of the pools specification
PoolSeats == 1

\* request.query_params of search_rides and recommended_rides; None is a
\* parameter that was not sent
NoParams ==
    [pickup |-> None, dropoff |-> None, date |-> None, workplace |-> None,
     lat |-> None, lng |-> None, dest_lat |-> None, dest_lng |-> None,
     time_flexibility |-> None, departure_time |-> None]

Text0010 == <<"0", ".", "0", "1", "0">>

Text0030 == <<"0", ".", "0", "3">>

TextDay1 == <<"2", "0", "2", "6", "-", "0", "1", "-", "0", "1">>

QCoords ==
    [NoParams EXCEPT !.lat = Text0010, !.lng = Text0010,
                     !.dest_lat = Text0030, !.dest_lng = Text0030]

\* a latitude that float() rejects
QBadCoord == [QCoords EXCEPT !.lat = <<"0", ",", "0", "1">>]

QPartial == [NoParams EXCEPT !.lat = Text0010, !.lng = Text0010]

QDate == [NoParams EXCEPT !.date = TextDay1]

\* 08:15 give or take 60 minutes
QTimeWide ==
    [QDate EXCEPT !.departure_time = <<"0", "8", ":", "1", "5">>,
                  !.time_flexibility = <<"6", "0">>]

\* 08:15 with a flexibility that int() rejects: 30 minutes
QTimeNarrow ==
    [QDate EXCEPT !.departure_time = <<"0", "8", ":", "1", "5">>,
                  !.time_flexibility = <<"1", "h">>]

\* a departure_time that is no HH:MM
QBadTime == [QDate EXCEPT !.departure_time = <<"8", "a", "m">>]

\* a date that is no YYYY-MM-DD
QBadDate == [NoParams EXCEPT !.date = <<"0", "1", "/", "0", "1">>]

QPickup == [NoParams EXCEPT !.pickup = AcmeLower]

QDropoff == [NoParams EXCEPT !.dropoff = Mall]

QWorkplace == [NoParams EXCEPT !.workplace = AcmeUpper]

SearchParams ==
    {NoParams, QCoords, QBadCoord, QPartial, QDate, QTimeWide, QTimeNarrow,
     QBadTime, QBadDate, QPickup, QDropoff, QWorkplace}

RecommendedParams == {NoParams, QCoords, QBadCoord}

\* user 1 sends every query; the drivers send the plain and the scored one
SearchRequests ==
    ({1} \X SearchParams) \cup ({2, 3} \X {NoParams, QCoords})

RecommendedRequests ==
    ({1} \X RecommendedParams) \cup ({2, 3} \X {NoParams, QCoords})

FriendGroupRequests == ({1} \X {"", "hikers"}) \cup ({2, 3} \X {"hikers"})

\* user 2 offers rides from the workplace, user 3 recurring rides from the mall
PoolCreate ==
    \E offer \in {<<2, FormA>>, <<3, FormB>>} :
        /\ Idle
        /\ Len(rides) < MaxPoolRides
        /\ create(offer[1], CreateData(offer[2], PoolSeats, Departure))

\* user 1 is the passenger
PoolJoin == \E r \in RideIds : Idle /\ join(1, r)

PoolManage ==
    \E r \in RideIds, action \in {"confirm", "reject"} :
        Idle /\ manage_passengers(rides[r].driver, r, 1, action)

PoolLeave == \E r \in RideIds : Idle /\ leave_ride(1, r)

\* user 1 withdraws a request through the ride-passengers endpoint
PoolWithdraw ==
    \E r \in RideIds : Idle /\ ride_passenger_partial_update(1, r, 1, "cancelled")

PoolStart == \E r \in RideIds : Idle /\ start_ride(rides[r].driver, r)

PoolComplete == \E r \in RideIds : Idle /\ complete_ride(rides[r].driver, r)

PoolCancel == \E r \in RideIds : Idle /\ cancel_ride(rides[r].driver, r)

Available == \E u \in UserIds, order \in DbOrders : Idle /\ available_rides(u, order)

Search ==
    \E req \in SearchRequests, order \in DbOrders :
        Idle /\ search_rides(req[1], req[2], order)

Recommended ==
    \E req \in RecommendedRequests, order \in DbOrders :
        Idle /\ recommended_rides(req[1], req[2], order)

ColleaguesRides ==
    \E u \in UserIds, order \in DbOrders : Idle /\ colleagues_rides(u, order)

FriendGroupRides ==
    \E req \in FriendGroupRequests, order \in DbOrders :
        Idle /\ friend_group_rides(req[1], req[2], order)

SocialRides ==
    \E u \in UserIds, order \in DbOrders : Idle /\ social_connections_rides(u, order)

NextPools ==
    \/ PoolCreate
    \/ PoolJoin
    \/ PoolManage
    \/ PoolLeave
    \/ PoolWithdraw
    \/ PoolStart
    \/ PoolComplete
    \/ PoolCancel
    \/ Clock
    \/ Return
    \/ Available
    \/ Search
    \/ Recommended
    \/ ColleaguesRides
    \/ FriendGroupRides
    \/ SocialRides

SpecPools == Init /\ [][NextPools]_vars

\* the six candidate pools
PoolOps ==
    {"available_rides", "search_rides", "recommended_rides", "colleagues_rides",
     "friend_group_rides", "social_connections_rides"}

\* the ids of the rides in the response
ReturnedIds == {response.rides[i].id : i \in DOMAIN response.rides}

\* the score match_score gives ride r for the rider and coordinates of the
\* query that the response answers
ScoreOf(r) ==
    match_score(RideObject(rides[r]), users[response.user],
                ParseFloat(response.params.lat)[1], ParseFloat(response.params.lng)[1],
                ParseFloat(response.params.dest_lat)[1],
                ParseFloat(response.params.dest_lng)[1])

\* C2: with complete rider coordinates the list of search_rides and of
\* recommended_rides holds every candidate of the filtered set exactly once
\* with its score, in non-increasing score order, candidates of equal score
\* in the order of the candidate sequence.
C2_RankedByScore ==
    /\ (/\ response.op \in {"search_rides", "recommended_rides"}
        /\ response.status = 200
        /\ CoordinatesGiven(response.params)) => response.scored
    /\ response.scored =>
           LET out == response.rides
               cand == response.candidates
               place(r) == CHOOSE i \in DOMAIN cand : cand[i] = r
           IN  /\ Len(out) = Len(cand)
               /\ \A i \in DOMAIN cand :
                      Cardinality({j \in DOMAIN out : out[j].id = cand[i]}) = 1
               /\ \A j \in DOMAIN out : out[j].match_score = <<ScoreOf(out[j].id)>>
               /\ \A i, j \in DOMAIN out :
                      i < j => out[i].match_score[1] >= out[j].match_score[1]
               /\ \A i, j \in DOMAIN out :
                      (i < j /\ out[i].match_score = out[j].match_score)
                          => place(out[i].id) < place(out[j].id)

\* two candidates of equal score that the database gave in the order 2, 1
C2_Witness ==
    /\ response.scored
    /\ response.candidates = <<2, 1>>
    /\ response.rides[1].match_score = response.rides[2].match_score
    /\ response.rides[1].id = 2

\* C3: no candidate pool returns a ride without available seats, a ride
\* whose status is not 'scheduled', or a ride driven by the requesting rider.
C3_PoolsAdmissible ==
    response.op \in PoolOps =>
        \A i \in DOMAIN response.rides :
            LET d == response.rides[i]
            IN  /\ d.id \in RideIds
                /\ d.available_seats # 0 /\ rides[d.id].available_seats # 0
                /\ d.status = "scheduled" /\ rides[d.id].status = "scheduled"
                /\ d.driver # response.user /\ rides[d.id].driver # response.user

\* a pool has left out a full ride that is scheduled, departs later, is not
\* driven by the rider and has no record of the rider
C3_Witness ==
    /\ response.op \in PoolOps
    /\ response.status = 200
    /\ \E r \in RideIds \ ReturnedIds :
           /\ rides[r].available_seats = 0
           /\ rides[r].status = "scheduled"
           /\ rides[r].departure_time > now
           /\ rides[r].driver # response.user
           /\ ~HasRecord(r, response.user)

\* C4: no pool returns a ride on which the requesting rider has a
\* RidePassenger record, whatever its status; a ride the rider has no record
\* on is not held back for it, and after leave_ride has deleted the rider's
\* record the ride is a candidate of the rider again.
C4_NoRecordOfRequester ==
    /\ [](response.op \in PoolOps =>
             \A r \in ReturnedIds :
                 ~\E p \in passengers : p.ride = r /\ p.passenger = response.user)
    /\ [](response.op = "available_rides" =>
             \A r \in RideIds :
                 (/\ rides[r].status = "scheduled"
                  /\ rides[r].available_seats > 0
                  /\ rides[r].departure_time > now
                  /\ rides[r].driver # response.user
                  /\ ~\E p \in passengers : p.ride = r /\ p.passenger = response.user)
                     => r \in ReturnedIds)
    /\ [][\A u \in UserIds, r \in 1..MaxPoolRides :
             (/\ response # response'
              /\ response'.op = "leave_ride" /\ response'.status = 204
              /\ response'.user = u /\ response'.ride = r)
                 => /\ ~\E p \in passengers' : p.ride = r /\ p.passenger = u
                    /\ (/\ rides'[r].status = "scheduled"
                        /\ rides'[r].available_seats > 0
                        /\ rides'[r].driver # u)
                           => /\ r \in SearchIds(u, NoParams)'
                              /\ rides'[r].departure_time > now'
                                     => r \in AvailableIds(u)']_vars

\* a pool has left out a ride only because the rider has a cancelled request
\* on it, and has returned the other ride
C4_Witness ==
    /\ response.op \in PoolOps
    /\ response.status = 200
    /\ ReturnedIds # {}
    /\ \E r \in RideIds \ ReturnedIds :
           /\ [ride |-> r, passenger |-> response.user, status |-> "cancelled"]
                  \in passengers
           /\ rides[r].available_seats > 0
           /\ rides[r].status = "scheduled"
           /\ rides[r].departure_time > now
           /\ rides[r].driver # response.user

\* C5: a search without a date, like every other pool, returns only rides
\* that depart after the time of the query.
C5_FutureOnly ==
    (/\ response.op \in PoolOps
     /\ response.op = "search_rides" => ~Truthy(response.params.date))
        => \A i \in DOMAIN response.rides : response.rides[i].departure_time > now

\* C8: a ride that is cancelled or completed is in no pool's result, then or
\* ever after.
C8_TerminalExcluded ==
    \A r \in 1..MaxPoolRides :
        []((r \in RideIds /\ rides[r].status \in {"cancelled", "completed"})
               => [](response.op \in PoolOps => r \notin ReturnedIds))

\* a pool has left out a cancelled ride that has a seat, departs later, is
\* not driven by the rider and has no record of the rider
C8_Witness ==
    /\ response.op \in PoolOps
    /\ response.status = 200
    /\ \E r \in RideIds \ ReturnedIds :
           /\ rides[r].status = "cancelled"
           /\ rides[r].available_seats > 0
           /\ rides[r].departure_time > now
           /\ rides[r].driver # response.user
           /\ ~HasRecord(r, response.user)

\* C9: a step that answers a pool query, scored with match_score or not,
\* leaves every ride, every RidePassenger record and every user unchanged.
C9_QueriesReadOnly ==
    [][(response' # response /\ response'.op \in PoolOps)
           => UNCHANGED <<rides, passengers, users>>]_vars

\* a scored query has been answered over rides with passengers
C9_Witness ==
    /\ response.op \in PoolOps
    /\ response.scored
    /\ response.rides # << >>
    /\ passengers # {}

\* C10: whatever optional parameters it is sent, a search_rides or
\* recommended_rides query is answered with a list of rides.
C10_NeverFails ==
    response.op \in {"search_rides", "recommended_rides"} => response.status = 200

-----------------------------------------------------------------------------
(* SpecConfirm: manage_passengers 'confirm' requests of the driver handled at
   the same time, each by a worker of the server that takes the statements of
   the handler one at a time; no statement of the handler takes a lock or
   opens a transaction *)

\* the requests handled at the same time
MaxWorkers == 2

IdleWorker == [pc |-> "idle", ride |-> 0, passenger_id |-> 0, row |-> << >>, status |-> 0]

\* user 2 has created a ride, users 1 and 3 have asked to join it
InitConfirm ==
    /\ \E seats \in 1..MaxSeats :
           rides = <<NewRide(2, CreateData(FormA, seats, Departure))>>
    /\ passengers = {[ride |-> 1, passenger |-> u, status |-> "pending"] : u \in {1, 3}}
    /\ users = UserRows
    /\ now = StartOfClock
    /\ response = NoResponse
    /\ scoreArgs = << >>
    /\ scoreResult = None
    /\ workers = [w \in 1..MaxWorkers |-> IdleWorker]

\* ride = self.get_object(): the worker loads the Ride row
confirm_get_object(w, r, passenger_id) ==
    /\ workers[w].pc = "idle"
    /\ r \in RideIds
    /\ workers' = [workers EXCEPT ![w] =
           [pc |-> "get_request", ride |-> r, passenger_id |-> passenger_id,
            row |-> <<rides[r]>>, status |-> 0]]
    /\ UNCHANGED <<rides, passengers, users, now, response, scoreArgs, scoreResult>>

\* get_object_or_404(RidePassenger, id=passenger_id, ride=ride, status='pending')
confirm_get_request(w) ==
    /\ workers[w].pc = "get_request"
    /\ IF [ride |-> workers[w].ride, passenger |-> workers[w].passenger_id,
           status |-> "pending"] \in passengers
       THEN workers' = [workers EXCEPT ![w].pc = "is_full"]
       ELSE workers' = [workers EXCEPT ![w].pc = "done", ![w].status = 404]
    /\ UNCHANGED <<rides, passengers, users, now, response, scoreArgs, scoreResult>>

\* if ride.is_full(): on the row the worker loaded
confirm_is_full(w) ==
    /\ workers[w].pc = "is_full"
    /\ IF is_full(workers[w].row[1])
       THEN workers' = [workers EXCEPT ![w].pc = "done", ![w].status = 400]
       ELSE workers' = [workers EXCEPT ![w].pc = "save"]
    /\ UNCHANGED <<rides, passengers, users, now, response, scoreArgs, scoreResult>>

\* passenger_request.status = 'confirmed'; passenger_request.save()
confirm_save(w) ==
    /\ workers[w].pc = "save"
    /\ LET r == workers[w].ride
           u == workers[w].passenger_id
       IN  passengers' = {p \in passengers : ~(p.ride = r /\ p.passenger = u)}
                             \cup {[ride |-> r, passenger |-> u, status |-> "confirmed"]}
    /\ workers' = [workers EXCEPT ![w].pc = "update_available_seats"]
    /\ UNCHANGED <<rides, users, now, response, scoreArgs, scoreResult>>

\* ride.update_available_seats(), then return Response(serializer.data)
confirm_update_available_seats(w) ==
    /\ workers[w].pc = "update_available_seats"
    /\ LET r == workers[w].ride
       IN  rides' = [rides EXCEPT
               ![r] = update_available_seats(workers[w].row[1], r, passengers)]
    /\ workers' = [workers EXCEPT ![w].pc = "done", ![w].status = 200]
    /\ UNCHANGED <<passengers, users, now, response, scoreArgs, scoreResult>>

GetObject ==
    \E w \in 1..MaxWorkers, passenger_id \in {1, 3} :
        confirm_get_object(w, 1, passenger_id)

GetRequest == \E w \in 1..MaxWorkers : confirm_get_request(w)

IsFull == \E w \in 1..MaxWorkers : confirm_is_full(w)

Save == \E w \in 1..MaxWorkers : confirm_save(w)

UpdateAvailableSeats == \E w \in 1..MaxWorkers : confirm_update_available_seats(w)

NextConfirm ==
    \/ GetObject
    \/ GetRequest
    \/ IsFull
    \/ Save
    \/ UpdateAvailableSeats

SpecConfirm == InitConfirm /\ [][NextConfirm]_vars

\* C7: however the confirm requests for a ride interleave, its confirmed
\* passengers never outnumber its seats, and two requests that both read one
\* available seat do not both confirm.
C7_NoOversell ==
    \A r \in RideIds :
        Cardinality({p \in passengers : p.ride = r /\ p.status = "confirmed"})
            <= rides[r].total_seats

-----------------------------------------------------------------------------
(* the social pools of a rider without social data *)

\* C11: to a rider with no workplace, no connections and no friend groups,
\* colleagues_rides, friend_group_rides (asked for a group) and
\* social_connections_rides each answer 200 with an empty list, never an error,
\* and no ride earns that rider a workplace or colleague bonus.
C11_EmptySocialPools ==
    LET NoSocialData(u) ==
            /\ ~Truthy(users[u].workplace)
            /\ users[u].connections = {}
            /\ ~Truthy(users[u].friend_groups)
    IN  (response.op # "none" /\ NoSocialData(response.user)) =>
            /\ response.op \in {"colleagues_rides", "friend_group_rides",
                                "social_connections_rides"}
                   => response.status = 200 /\ response.rides = << >>
            /\ \A r \in RideIds :
                   /\ WorkplaceBonus(RideObject(rides[r]), users[response.user]) = 0
                   /\ ColleagueBonus(RideObject(rides[r]), users[response.user]) = 0

-----------------------------------------------------------------------------
(* SpecPrivate: rides marked private in the admin site, and the public pools *)

\* RideAdmin's change form: no serializer carries is_private, the admin site
\* registers Ride with every editable field
admin_change_is_private(r, value) ==
    /\ rides' = [rides EXCEPT ![r].is_private = value]
    /\ UNCHANGED <<passengers, users, now, response, scoreArgs, scoreResult,
                   workers>>

AdminChange ==
    \E r \in RideIds, value \in BOOLEAN :
        Idle /\ rides[r].is_private # value /\ admin_change_is_private(r, value)

NextPrivate ==
    \/ PoolCreate
    \/ AdminChange
    \/ Available
    \/ Search
    \/ Recommended
    \/ Return

SpecPrivate == Init /\ [][NextPrivate]_vars

\* C12: a private ride is visible only to connections and colleagues of its
\* driver: available_rides, search_rides and recommended_rides return no ride
\* with is_private set to a rider who is neither connected to its driver (in
\* either direction) nor at the driver's workplace.
C12_PrivateRidesHidden ==
    LET ConnectedOrColleague(u, v) ==
            \/ v \in users[u].connections
            \/ u \in users[v].connections
            \/ Truthy(users[u].workplace) /\ users[u].workplace = users[v].workplace
    IN  response.op \in {"available_rides", "search_rides", "recommended_rides"} =>
            \A r \in ReturnedIds :
                rides[r].is_private =>
                    ConnectedOrColleague(response.user, rides[r].driver)

-----------------------------------------------------------------------------
(* the boundary of join *)

\* C13: join creates exactly one pending record exactly when the ride is
\* scheduled, has a seat left, the requester has no record on it and is not its
\* driver; any other join is answered with an error and changes no record and
\* no seat count; an accepted join leaves available_seats as it was.
C13_JoinBoundary ==
    [][\A u \in UserIds, r \in RideIds :
          (/\ response.op = "none"
           /\ response'.op = "join"
           /\ response'.user = u
           /\ response'.ride = r) =>
              /\ rides' = rides
              /\ IF /\ rides[r].status = "scheduled"
                    /\ rides[r].available_seats > 0
                    /\ ~HasRecord(r, u)
                    /\ rides[r].driver # u
                 THEN /\ response'.status = 201
                      /\ passengers' \ passengers =
                             {[ride |-> r, passenger |-> u, status |-> "pending"]}
                      /\ passengers \subseteq passengers'
                 ELSE /\ response'.status = 400
                      /\ passengers' = passengers]_vars

\* a join was accepted on a ride with a seat left: the requester's only record
\* on it is pending and the seats are all still available
C13_Witness ==
    /\ response.op = "join"
    /\ response.status = 201
    /\ \E r \in RideIds :
           /\ r = response.ride
           /\ {p.status : p \in {q \in passengers :
                  q.ride = r /\ q.passenger = response.user}} = {"pending"}
           /\ rides[r].available_seats = rides[r].total_seats
           /\ rides[r].total_seats > 0

-----------------------------------------------------------------------------
(* SpecRating: Ride.update_rating and User.update_rating *)

MaxRatings == 7

\* new_rating: whole stars, in and out of range
RatingInputs == {0, 1, 2, 5, 6}

\* the value DecimalField(max_digits=3, decimal_places=2) stores for num / den,
\* in hundredths: the nearest hundredth, a tie going down (tie = 0) or up
\* (tie = 1) as the database's rounding has it
StoredDecimal(num, den, tie) ==
    LET q == num \div den
        rem == num % den
    IN  IF 2 * rem > den THEN q + 1
        ELSE IF 2 * rem = den THEN q + tie
        ELSE q

\* update_rating on an object loaded from its row: the row it saves, or the
\* row as it was when the call raises ValueError. average_rating is in
\* hundredths of a point.
update_rating(self, new_rating, tie) ==
    IF new_rating < 1 \/ new_rating > 5
    THEN self
    ELSE IF self.total_ratings = 0
    THEN [self EXCEPT !.average_rating = 100 * new_rating,
                      !.total_ratings = 1]
    ELSE LET total == self.average_rating * self.total_ratings
         IN  [self EXCEPT
                 !.average_rating =
                     StoredDecimal(total + 100 * new_rating, self.total_ratings + 1,
                                   tie),
                 !.total_ratings = self.total_ratings + 1]

\* the outcome of a call and the ratings accepted so far
RatingLog(log, new_rating) ==
    IF new_rating < 1 \/ new_rating > 5
    THEN log
    ELSE Append(log, new_rating)

\* rows with the defaults of the two rating fields; scoreArgs keeps the
\* ratings each object has accepted, scoreResult what the last call did
InitRating ==
    /\ users = <<[average_rating |-> 0, total_ratings |-> 0]>>
    /\ rides = <<[average_rating |-> 0, total_ratings |-> 0]>>
    /\ scoreArgs = [user |-> << >>, ride |-> << >>]
    /\ scoreResult = None
    /\ passengers = {}
    /\ now = 0
    /\ response = NoResponse
    /\ workers = << >>

UserUpdateRating ==
    \E new_rating \in RatingInputs, tie \in {0, 1} :
        /\ Len(scoreArgs.user) + Len(scoreArgs.ride) < MaxRatings
        /\ users' = [users EXCEPT ![1] = update_rating(users[1], new_rating, tie)]
        /\ scoreArgs' = [scoreArgs EXCEPT !.user = RatingLog(@, new_rating)]
        /\ scoreResult' = IF new_rating < 1 \/ new_rating > 5
                          THEN <<"ValueError">> ELSE <<"saved">>
        /\ UNCHANGED <<rides, passengers, now, response, workers>>

RideUpdateRating ==
    \E new_rating \in RatingInputs, tie \in {0, 1} :
        /\ Len(scoreArgs.user) + Len(scoreArgs.ride) < MaxRatings
        /\ rides' = [rides EXCEPT ![1] = update_rating(rides[1], new_rating, tie)]
        /\ scoreArgs' = [scoreArgs EXCEPT !.ride = RatingLog(@, new_rating)]
        /\ scoreResult' = IF new_rating < 1 \/ new_rating > 5
                          THEN <<"ValueError">> ELSE <<"saved">>
        /\ UNCHANGED <<users, passengers, now, response, workers>>

NextRating == UserUpdateRating \/ RideUpdateRating

SpecRating == InitRating /\ [][NextRating]_vars

RECURSIVE Sum(_)
Sum(s) == IF s = << >> THEN 0 ELSE s[1] + Sum(Tail(s))

\* C14: a rating below 1 or above 5 is refused and leaves both fields as they
\* were; an accepted rating adds 1 to total_ratings and leaves average_rating
\* at the mean of the accepted ratings (to the two decimals the field keeps);
\* average_rating is 0 while total_ratings is 0 and within [1, 5] afterwards.
C14_RatingIsMean ==
    \A who \in {"user", "ride"} :
        LET row == IF who = "user" THEN users[1] ELSE rides[1]
            accepted == scoreArgs[who]
            n == Len(accepted)
            diff == row.average_rating * n - 100 * Sum(accepted)
        IN  /\ row.total_ratings = n
            /\ \A i \in DOMAIN accepted : 1 <= accepted[i] /\ accepted[i] <= 5
            /\ n = 0 => row.average_rating = 0
            /\ n > 0 => 100 <= row.average_rating /\ row.average_rating <= 500
            /\ 2 * diff <= n /\ -2 * diff <= n

-----------------------------------------------------------------------------
(* SpecDistance: calculate_distance as a function of its arguments *)

\* latitudes and longitudes, in thousandths of a degree
GeoValues == {-30, 0, 10, 14, 100}

InitDistance ==
    /\ scoreArgs \in GeoValues \X GeoValues \X GeoValues \X GeoValues
    /\ scoreResult = None
    /\ rides = NoRides
    /\ passengers = {}
    /\ users = NoUsers
    /\ now = 0
    /\ response = NoResponse
    /\ workers = << >>

CallDistance ==
    /\ scoreResult = None
    /\ scoreResult' = <<calculate_distance(scoreArgs[1], scoreArgs[2],
                                           scoreArgs[3], scoreArgs[4])>>
    /\ UNCHANGED <<rides, passengers, users, now, response, scoreArgs, workers>>

SpecDistance == InitDistance /\ [][CallDistance]_vars

-----------------------------------------------------------------------------
(* the factors of match_score, under SpecScore *)

\* the call is Scenario A: pickup 0.4 km and dropoff 2 km from the rider,
\* driver rating 4.0, no preferred times, no comfort data, no workplace, not
\* recurring
ScenarioA ==
    /\ scoreArgs.coords = Coords(<<10>>, <<10>>, <<30>>, <<30>>)
    /\ scoreArgs.rider = <<10, 14, 30, 48>>
    /\ scoreArgs.times[2] = None
    /\ scoreArgs.rating = 400
    /\ scoreArgs.comfort = None
    /\ scoreArgs.work = <<FALSE, Mall, Depot, None, None>>
    /\ scoreArgs.recur[1] = FALSE

\* C16: match_score is min(100, 50 + proximity + time + reputation
\* + min(20, preference) + bonuses), where reputation is min(10, 2 * rating)
\* for a driver rating above 0 and 0 otherwise; Scenario A scores
\* 50 + 20 + 15 + 8 = 93.
C16_ScoreFormula ==
    scoreResult # None =>
        LET ride == ArgRide(scoreArgs)
            user == ArgUser(scoreArgs)
            rating == scoreArgs.rating
            reputation == IF rating > 0 THEN Min(10 * 100, 2 * rating) ELSE 0
            proximity == ProximityScore(ride, scoreArgs.rider[1], scoreArgs.rider[2],
                                        scoreArgs.rider[3], scoreArgs.rider[4])
            bonuses == WorkplaceBonus(ride, user) + ColleagueBonus(ride, user)
                       + RecurringBonus(ride, user)
        IN  /\ scoreResult[1] =
                   Min(100 * 100,
                       50 * 100 + 100 * proximity + 100 * TimeScore(ride, user)
                       + reputation + 100 * Min(20, PreferenceScore(ride, user))
                       + 100 * bonuses)
            /\ ScenarioA => scoreResult[1] = 93 * 100

\* Scenario A has been scored, at 20 for the pickup and 15 for the dropoff
C16_Witness ==
    /\ scoreResult # None
    /\ ScenarioA
    /\ scoreResult[1] = 93 * 100
    /\ ProximityScore(ArgRide(scoreArgs), scoreArgs.rider[1], scoreArgs.rider[2],
                      scoreArgs.rider[3], scoreArgs.rider[4]) = 35

\* the ride of the call has no coordinates and a driver of rating 0, and the
\* rider has no preferred times, days, music or workplace and no preference on
\* smoking, air conditioning and chat
BaseOnlyCall ==
    /\ scoreArgs.coords = Coords(None, None, None, None)
    /\ scoreArgs.rating = 0
    /\ scoreArgs.times[2] = None
    /\ scoreArgs.recur[3] = None
    /\ scoreArgs.work[5] = None
    /\ scoreArgs.prefs = <<"no_preference", "no_preference", "no_preference", None>>

\* C17 as stated: every ride without coordinates whose driver has rating 0
\* scores exactly 50 for every rider without preferences.
C17_BaseOnly ==
    (scoreResult # None /\ BaseOnlyCall) => scoreResult[1] = 50 * 100

\* C17: a ride without coordinates and without comfort attributes whose driver
\* has rating 0 scores exactly 50 for every rider without preferences (a ride
\* that carries comfort attributes earns such a rider 3 points for each of
\* smoking, air conditioning and chat).
C17_BaseOnlyWithoutComfort ==
    (scoreResult # None /\ BaseOnlyCall /\ scoreArgs.comfort = None)
        => scoreResult[1] = 50 * 100

\* a recurring workplace ride of a driver with a workplace, without coordinates
\* and comfort attributes, has been scored 50 for a rider without preferences
C17_Witness ==
    /\ scoreResult = <<50 * 100>>
    /\ BaseOnlyCall
    /\ scoreArgs.comfort = None
    /\ scoreArgs.work[1] = TRUE
    /\ scoreArgs.work[4] # None
    /\ scoreArgs.recur[1] = TRUE

\* C18: a ride that carries all four coordinate fields, whatever their values
\* (0 included), adds step(pickup distance) + step(dropoff distance) to the
\* score, step being 20 up to 1 km, 15 up to 3 km, 10 up to 5 km, 5 up to
\* 10 km and 0 beyond; a ride that lacks one of the fields adds 0.
C18_ProximitySteps ==
    scoreResult # None =>
        LET ride == ArgRide(scoreArgs)
            user == ArgUser(scoreArgs)
            carried == /\ ride.pickup_latitude # None
                       /\ ride.pickup_longitude # None
                       /\ ride.dropoff_latitude # None
                       /\ ride.dropoff_longitude # None
            proximity ==
                IF carried
                THEN DistancePoints(calculate_distance(
                         scoreArgs.rider[1], scoreArgs.rider[2],
                         ride.pickup_latitude[1], ride.pickup_longitude[1]))
                     + DistancePoints(calculate_distance(
                         scoreArgs.rider[3], scoreArgs.rider[4],
                         ride.dropoff_latitude[1], ride.dropoff_longitude[1]))
                ELSE 0
            others == 100 * TimeScore(ride, user) + RatingScore100(ride)
                      + 100 * Min(20, PreferenceScore(ride, user))
                      + 100 * WorkplaceBonus(ride, user)
                      + 100 * ColleagueBonus(ride, user)
                      + 100 * RecurringBonus(ride, user)
        IN  scoreResult[1] = Min(100 * 100, 50 * 100 + 100 * proximity + others)

\* C19: the time factor is exactly 20 when at least one preferred range is a
\* well-formed "HH:MM-HH:MM" that contains the ride's minute of the day, both
\* ends included, and 0 otherwise; several matching ranges still add 20, and a
\* malformed range string is skipped: the ranges after it are still tried and
\* nothing is raised.
C19_TimeFactor ==
    scoreResult # None =>
        LET ride == ArgRide(scoreArgs)
            user == ArgUser(scoreArgs)
            ranges == scoreArgs.times[2]
            minute == HourOf(ride.departure_time) * 60 + MinuteOf(ride.departure_time)
            WellFormed(s) ==
                /\ Len(s) = 11
                /\ s[3] = ":" /\ s[6] = "-" /\ s[9] = ":"
                /\ \A i \in {1, 2, 4, 5, 7, 8, 10, 11} : IsDigit(s[i])
            Minutes(s, i) ==
                (10 * DigitVal(s[i]) + DigitVal(s[i + 1])) * 60
                + 10 * DigitVal(s[i + 3]) + DigitVal(s[i + 4])
            time == IF \E i \in DOMAIN ranges :
                           /\ WellFormed(ranges[i])
                           /\ Minutes(ranges[i], 1) <= minute
                           /\ minute <= Minutes(ranges[i], 7)
                    THEN 20
                    ELSE 0
            others == 100 * ProximityScore(ride, scoreArgs.rider[1], scoreArgs.rider[2],
                                           scoreArgs.rider[3], scoreArgs.rider[4])
                      + RatingScore100(ride)
                      + 100 * Min(20, PreferenceScore(ride, user))
                      + 100 * WorkplaceBonus(ride, user)
                      + 100 * ColleagueBonus(ride, user)
                      + 100 * RecurringBonus(ride, user)
        IN  scoreResult[1] = Min(100 * 100, 50 * 100 + 100 * time + others)

\* a ride at 08:30 has been scored 50 + 20 for a rider whose first entry is
\* malformed and whose next two ranges both contain 08:30, one of them as its
\* first minute
C19_Witness ==
    /\ scoreResult = <<70 * 100>>
    /\ Len(scoreArgs.times[2]) = 3
    /\ ~TimeRangeMatches(scoreArgs.times[2][1], scoreArgs.times[1])
    /\ TimeRangeMatches(scoreArgs.times[2][2], scoreArgs.times[1])
    /\ TimeRangeMatches(scoreArgs.times[2][3], scoreArgs.times[1])
    /\ scoreArgs.coords = Coords(None, None, None, None)
    /\ scoreArgs.rating = 0

\* the score of the call is min(100, 50 + min(20, preference) + the other
\* factors), preference being 0 for a ride without comfort attributes and
\* otherwise, for each of smoking, AC and chat, 3 for 'no_preference', 5 when
\* the ride's attribute matches the preference and 0 when it does not, plus 5
\* when the genres intersect; an attribute the ride does not list counts as
\* smoking_allowed = false, has_ac = false, chat_level = 'moderate'
PreferenceFactorIs(ChatMatches(_, _)) ==
    LET ride == ArgRide(scoreArgs)
        user == ArgUser(scoreArgs)
        cf == scoreArgs.comfort
        p == scoreArgs.prefs
        Points(pref, matches) ==
            IF pref = "no_preference" THEN 3 ELSE IF matches THEN 5 ELSE 0
        smoking == Points(p[1], (p[1] = "smoking_allowed")
                                    = Get(cf, "smoking_allowed", FALSE))
        ac == Points(p[2], (p[2] = "ac_required") = Get(cf, "has_ac", FALSE))
        chat == Points(p[3], ChatMatches(p[3], Get(cf, "chat_level", "moderate")))
        music == IF /\ p[4] # None
                    /\ "music_genres" \in DOMAIN cf
                    /\ \E i \in DOMAIN p[4], j \in DOMAIN cf.music_genres :
                           p[4][i] = cf.music_genres[j]
                 THEN 5
                 ELSE 0
        preference == IF cf = None THEN 0 ELSE smoking + ac + chat + music
        others == 100 * ProximityScore(ride, scoreArgs.rider[1], scoreArgs.rider[2],
                                       scoreArgs.rider[3], scoreArgs.rider[4])
                  + 100 * TimeScore(ride, user)
                  + RatingScore100(ride)
                  + 100 * WorkplaceBonus(ride, user)
                  + 100 * ColleagueBonus(ride, user)
                  + 100 * RecurringBonus(ride, user)
    IN  scoreResult[1] = Min(100 * 100, 50 * 100 + 100 * Min(20, preference) + others)

\* C20 as stated: the chat points are 5 only when the ride's chat_level is
\* equal to the rider's chat preference.
C20_PreferenceFactor ==
    scoreResult # None =>
        PreferenceFactorIs(LAMBDA pref, level : level = pref)

\* C20: the preference factor, the chat points being 5 when the ride's
\* chat_level is the rider's chat preference or 'moderate' (a moderate ride
\* suits a chatty and a quiet rider alike).
C20_PreferenceFactorModerate ==
    scoreResult # None =>
        PreferenceFactorIs(LAMBDA pref, level : level \in {pref, "moderate"})

\* a ride of moderate chat level, no smoking, with AC and jazz has been scored
\* 50 + 5 + 5 + 5 + 5 for a chatty non-smoking rider who requires AC and
\* likes jazz
C20_Witness ==
    /\ scoreResult = <<70 * 100>>
    /\ scoreArgs.comfort # None
    /\ Get(scoreArgs.comfort, "chat_level", "none") = "moderate"
    /\ scoreArgs.prefs = <<"no_smoking", "ac_required", "chatty", <<"jazz">> >>
    /\ scoreArgs.coords = Coords(None, None, None, None)
    /\ scoreArgs.rating = 0
    /\ scoreArgs.times[2] = None
    /\ scoreArgs.work[5] = None
    /\ scoreArgs.recur[1] = FALSE

-----------------------------------------------------------------------------
(* the recurrence bonus of rides stored through create *)

\* C22: a recurring ride stored through the ride-creation interface earns a
\* rider with preferred weekdays 0-6 one point for every weekday that is both
\* in the ride's recurring days and in the rider's preferred days (ride days
\* {0, 2, 4} and rider days {0, 1, 2} give +2); a ride that is not recurring
\* earns no recurrence bonus.
C22_RecurrenceBonus ==
    (response.op \in {"search_rides", "recommended_rides"} /\ response.scored) =>
        \A i \in DOMAIN response.rides :
            LET r == response.rides[i].id
                ride == RideObject(rides[r])
                user == users[response.user]
                lat == ParseFloat(response.params.lat)[1]
                lng == ParseFloat(response.params.lng)[1]
                dest_lat == ParseFloat(response.params.dest_lat)[1]
                dest_lng == ParseFloat(response.params.dest_lng)[1]
                numbers == <<"i0", "i1", "i2", "i3", "i4", "i5", "i6">>
                strings == <<"s0", "s1", "s2", "s3", "s4", "s5", "s6">>
                Weekdays(days) ==
                    {k \in 1..7 : \E j \in DOMAIN days :
                                      days[j] = numbers[k] \/ days[j] = strings[k]}
                recurrence ==
                    IF ride.recurring
                    THEN Cardinality(Weekdays(ride.recurring_days)
                                     \cap Weekdays(user.preferred_days))
                    ELSE 0
                others == 100 * ProximityScore(ride, lat, lng, dest_lat, dest_lng)
                          + 100 * TimeScore(ride, user)
                          + RatingScore100(ride)
                          + 100 * Min(20, PreferenceScore(ride, user))
                          + 100 * WorkplaceBonus(ride, user)
                          + 100 * ColleagueBonus(ride, user)
            IN  response.rides[i].match_score =
                    <<Min(100 * 100, 50 * 100 + 100 * recurrence + others)>>

-----------------------------------------------------------------------------
(* the unscored lists of search_rides and recommended_rides *)

\* C23: when one of lat, lng, dest_lat, dest_lng is absent or is no number,
\* search_rides and recommended_rides do no scoring and return the filtered
\* candidates in their persistence order, not reordered and without scores.
C23_UnscoredNaturalOrder ==
    LET q == response.params
        numeric(c) == Truthy(c) /\ ParseFloat(c) # << >>
    IN  (/\ response.op \in {"search_rides", "recommended_rides"}
         /\ response.status = 200
         /\ ~(numeric(q.lat) /\ numeric(q.lng)
              /\ numeric(q.dest_lat) /\ numeric(q.dest_lng))) =>
            /\ ~response.scored
            /\ [i \in DOMAIN response.rides |-> response.rides[i].id]
                   = response.candidates
            /\ \A i \in DOMAIN response.rides : response.rides[i].match_score = None

-----------------------------------------------------------------------------
(* the time window of search_rides *)

\* C24: a search with a date and a departure_time that parse returns only
\* rides that depart on that date and within time_flexibility minutes (30 when
\* absent or unparsable) of the requested time, both ends included; when the
\* time does not parse the rides returned are those of the same query with the
\* date only.
C24_TimeWindow ==
    LET q == response.params
        t == q.departure_time
        parses == /\ Len(t) = 5 /\ t[3] = ":"
                  /\ \A i \in {1, 2, 4, 5} : IsDigit(t[i])
                  /\ 10 * DigitVal(t[1]) + DigitVal(t[2]) <= 23
                  /\ 10 * DigitVal(t[4]) + DigitVal(t[5]) <= 59
        requested == ParseDate(q.date)[1] * MinutesPerDay
                     + (10 * DigitVal(t[1]) + DigitVal(t[2])) * 60
                     + 10 * DigitVal(t[4]) + DigitVal(t[5])
        flex == IF q.time_flexibility # None /\ ParseInt(q.time_flexibility) # << >>
                THEN ParseInt(q.time_flexibility)[1]
                ELSE 30
    IN  (/\ response.op = "search_rides"
         /\ response.status = 200
         /\ Truthy(q.date)
         /\ Truthy(t)) =>
            IF parses
            THEN \A r \in ReturnedIds :
                     /\ DateOf(rides[r].departure_time) = ParseDate(q.date)[1]
                     /\ requested - flex <= rides[r].departure_time
                     /\ rides[r].departure_time <= requested + flex
            ELSE ReturnedIds =
                     SearchIds(response.user, [q EXCEPT !.departure_time = None])

\* a search for 08:15 give or take 60 minutes has returned a ride that departs
\* at 07:30
C24_Witness ==
    /\ response.op = "search_rides"
    /\ response.status = 200
    /\ response.params.departure_time = <<"0", "8", ":", "1", "5">>
    /\ response.params.time_flexibility = <<"6", "0">>
    /\ \E r \in ReturnedIds : rides[r].departure_time = Day1 + 7 * 60 + 30

-----------------------------------------------------------------------------
(* SpecGroups: rides labelled with a friend group in the admin, and the       *)
(* friend-group and connections pools                                         *)

\* RideAdmin's change form: no serializer carries friend_group
admin_change_friend_group(r, label) ==
    /\ rides' = [rides EXCEPT ![r].friend_group = label]
    /\ UNCHANGED <<passengers, users, now, response, scoreArgs, scoreResult,
                   workers>>

AdminLabel ==
    \E r \in RideIds, label \in {"", "hikers"} :
        Idle /\ rides[r].friend_group # label /\ admin_change_friend_group(r, label)

SpecGroups ==
    Init /\ [][PoolCreate \/ AdminLabel \/ FriendGroupRides \/ SocialRides
               \/ Return]_vars

\* C25: every ride returned by friend_group_rides for a group label is open
\* (scheduled, in the future, with a seat, not the requester's own or joined)
\* and either carries a friend-group label that is one of the requester's own
\* groups or is driven by a member of one of the requester's groups; a rider
\* who is not in the requested group gets no ride through that label.
C25_FriendGroupPool ==
    (response.op = "friend_group_rides" /\ response.status = 200) =>
        LET u == response.user
            groups == IF Truthy(users[u].friend_groups)
                      THEN DOMAIN users[u].friend_groups
                      ELSE {}
        IN  \A r \in ReturnedIds :
                /\ rides[r].status = "scheduled"
                /\ rides[r].available_seats > 0
                /\ rides[r].departure_time > response.at
                /\ rides[r].driver # u
                /\ ~HasRecord(r, u)
                /\ \/ rides[r].friend_group \in groups
                   \/ \E g \in groups :
                          \E i \in DOMAIN users[u].friend_groups[g] :
                              users[u].friend_groups[g][i] = rides[r].driver

\* C26: social_connections_rides returns exactly the open rides whose driver
\* is one of the requester's connections or, when the requester has a
\* workplace, a colleague (same workplace, the requester excluded); it returns
\* no ride whose driver is neither a connection nor a colleague.
C26_ConnectionsPool ==
    (response.op = "social_connections_rides" /\ response.status = 200) =>
        LET u == response.user
            colleagues == IF Truthy(users[u].workplace)
                          THEN {v \in UserIds \ {u} :
                                    users[v].workplace = users[u].workplace}
                          ELSE {}
        IN  ReturnedIds =
                {r \in RideIds :
                    /\ rides[r].status = "scheduled"
                    /\ rides[r].available_seats > 0
                    /\ rides[r].departure_time > response.at
                    /\ rides[r].driver # u
                    /\ ~HasRecord(r, u)
                    /\ rides[r].driver \in users[u].connections \cup colleagues}

-----------------------------------------------------------------------------
(* manage_passengers, one request at a time *)

\* C27: with manage_passengers requests handled one at a time, a 'confirm' on
\* a ride with no available seat is answered with an error and changes neither
\* the request nor the seat counts; manage_passengers changes only a pending
\* request, to confirmed or to rejected, and never a confirmed or rejected one;
\* a 'reject' changes no seat count; the confirmed passengers of a ride never
\* outnumber its seats.
C27_SequentialConfirm ==
    /\ [](\A r \in RideIds : ConfirmedCount(passengers, r) <= rides[r].total_seats)
    /\ [][\A u \in UserIds, r \in RideIds, pid \in UserIds,
             action \in {"confirm", "reject"} :
              (Idle /\ manage_passengers(u, r, pid, action)) =>
                  LET request(st) == [ride |-> r, passenger |-> pid, status |-> st]
                  IN  /\ (action = "confirm" /\ rides[r].available_seats = 0) =>
                             /\ response'.status >= 400
                             /\ passengers' = passengers
                             /\ rides' = rides
                      /\ \A p \in passengers :
                             p.status # "pending" => p \in passengers'
                      /\ passengers' # passengers =>
                             /\ request("pending") \in passengers
                             /\ passengers' =
                                    (passengers \ {request("pending")}) \cup
                                    {request(IF action = "confirm" THEN "confirmed"
                                             ELSE "rejected")}
                      /\ action = "reject" => rides' = rides]_vars

\* the driver of a ride whose seats are all taken by confirmed passengers has
\* been refused while a request is still pending
C27_Witness ==
    /\ response.op = "manage_passengers"
    /\ response.status = 400
    /\ \E r \in RideIds :
           /\ r = response.ride
           /\ rides[r].driver = response.user
           /\ rides[r].available_seats = 0
           /\ ConfirmedCount(passengers, r) = rides[r].total_seats
           /\ \E p \in passengers : p.ride = r /\ p.status = "pending"

-----------------------------------------------------------------------------
(* the RidePassenger records of a ride *)

\* C28: after any sequence of join and invite_connections requests no
\* RidePassenger record has the ride's driver as its passenger, and a ride has
\* at most one record for each passenger.
C28_DriverNeverPassenger ==
    /\ \A p \in passengers : p.passenger # rides[p.ride].driver
    /\ \A p, q \in passengers :
           (p.ride = q.ride /\ p.passenger = q.passenger) => p = q

-----------------------------------------------------------------------------
(* SpecUpdate: the ride update endpoint beside create, join and
   manage_passengers *)

\* PATCH /rides/{r}/ with RideSerializer: IsRideDriver guards the object,
\* total_seats is a writable PositiveIntegerField, available_seats and status
\* are read-only and dropped from the validated data; ModelSerializer.update
\* assigns the validated fields and saves the row
partial_update(u, r, data) ==
    /\ r \in RideIds
    /\ IF rides[r].driver # u
       THEN /\ response' = Reply("partial_update", u, r, 403)
            /\ UNCHANGED rides
       ELSE IF data.total_seats < 0
       THEN /\ response' = Reply("partial_update", u, r, 400)
            /\ UNCHANGED rides
       ELSE /\ rides' = [rides EXCEPT ![r].total_seats = data.total_seats]
            /\ response' = Reply("partial_update", u, r, 200)
    /\ UNCHANGED <<passengers, users, now, scoreArgs, scoreResult, workers>>

RideUpdate ==
    \E u \in UserIds, r \in 1..MaxRides, seats \in (-1)..(MaxSeats + 1),
       available \in 0..MaxSeats, status \in {"scheduled", "completed"} :
        /\ Idle
        /\ partial_update(u, r, [total_seats |-> seats,
                                 available_seats |-> available,
                                 status |-> status])

SpecUpdate == Init /\ [][Create \/ Join \/ Manage \/ RideUpdate \/ Return]_vars

\* C29: when the driver edits a ride through the update endpoint, whatever the
\* new total_seats and the number of confirmed passengers, the ride keeps
\* 0 <= available_seats <= total_seats and
\* available_seats = max(0, total_seats - confirmed passengers).
C29_UpdateKeepsSeats ==
    \A r \in RideIds :
        /\ 0 <= rides[r].available_seats
        /\ rides[r].available_seats <= rides[r].total_seats
        /\ rides[r].available_seats =
               Max(0, rides[r].total_seats - ConfirmedCount(passengers, r))

-----------------------------------------------------------------------------
(* SpecLifecycle: the requests that read or write the status of a ride,
   together with the update endpoint *)

SpecLifecycle ==
    Init /\ [][Create \/ Join \/ Manage \/ Leave \/ Start \/ Complete \/ Cancel
                  \/ RideUpdate \/ Return]_vars

\* C30: a ride starts 'scheduled'; its status changes only by a successful
\* start_ride (scheduled to in_progress), complete_ride (in_progress to
\* completed) or cancel_ride (scheduled or in_progress to cancelled) of its
\* driver; any other start, complete or cancel request is answered with an
\* error and changes no ride; 'completed' and 'cancelled' are never left; join
\* and leave_ride succeed only on a scheduled ride.
C30_StatusLifecycle ==
    [][LET Moves ==
               {<<"start_ride", "scheduled", "in_progress">>,
                <<"complete_ride", "in_progress", "completed">>,
                <<"cancel_ride", "scheduled", "cancelled">>,
                <<"cancel_ride", "in_progress", "cancelled">>}
           Refused(u, r, op) ==
               \/ rides[r].driver # u
               \/ ~\E m \in Moves : m[1] = op /\ m[2] = rides[r].status
           Error == response'.status \in {400, 403} /\ rides' = rides
       IN  /\ \A r \in DOMAIN rides' \ RideIds : rides'[r].status = "scheduled"
           /\ \A r \in RideIds :
                  rides'[r].status # rides[r].status =>
                      /\ response'.status = 200
                      /\ response'.ride = r
                      /\ response'.user = rides[r].driver
                      /\ <<response'.op, rides[r].status, rides'[r].status>>
                             \in Moves
           /\ \A r \in RideIds :
                  rides[r].status \in {"completed", "cancelled"} =>
                      rides'[r].status = rides[r].status
           /\ \A u \in UserIds, r \in RideIds :
                  /\ (Idle /\ start_ride(u, r) /\ Refused(u, r, "start_ride"))
                         => Error
                  /\ (Idle /\ complete_ride(u, r)
                           /\ Refused(u, r, "complete_ride")) => Error
                  /\ (Idle /\ cancel_ride(u, r) /\ Refused(u, r, "cancel_ride"))
                         => Error
                  /\ (Idle /\ (join(u, r) \/ leave_ride(u, r))
                           /\ response'.status \in {201, 204})
                         => rides[r].status = "scheduled"]_vars

\* a finished ride whose driver asked to cancel it and was refused
C30_Witness ==
    \E r \in RideIds :
        /\ rides[r].status = "completed"
        /\ response.op = "cancel_ride"
        /\ response.user = rides[r].driver
        /\ response.status = 400

=============================================================================
